---- MODULE Spec2Model ----
(***************************************************************************)
(* Model of the BFF gateway (Next.js route handler + HMAC signer) and of   *)
(* the Laravel-side HmacValidator.                                         *)
(*                                                                         *)
(* Strings are sequences of one-character strings, so that the character   *)
(* level operations of the code (regular expressions, whitespace removal,  *)
(* key sorting, JSON encoding and decoding) are computed, not assumed.     *)
(* SHA-256 and HMAC-SHA256 are modelled symbolically as injective          *)
(* constructors (no collisions).                                           *)
(***************************************************************************)
EXTENDS Integers, Sequences, FiniteSets, TLC

(***************************************************************************)
(* Characters and strings                                                  *)
(***************************************************************************)

\* The characters the model uses, in ascending code-point order.
Ascii ==
  << " ", "\"", "#", "(", ")", ",", "-", ".", "/",
     "0", "1", "2", "3", "4", "5", "6", "7", "8", "9", ":",
     "A", "B", "C", "D", "E", "F", "G", "H", "I", "J", "K", "L", "M",
     "N", "O", "P", "Q", "R", "S", "T", "U", "V", "W", "X", "Y", "Z",
     "[", "\\", "]", "_",
     "a", "b", "c", "d", "e", "f", "g", "h", "i", "j", "k", "l", "m",
     "n", "o", "p", "q", "r", "s", "t", "u", "v", "w", "x", "y", "z",
     "{", "|", "}" >>

\* Rank of a character in code-point order.
Ord(c) == CHOOSE i \in 1..Len(Ascii) : Ascii[i] = c

Digits == <<"0", "1", "2", "3", "4", "5", "6", "7", "8", "9">>

IsDigit(c) == \E i \in 1..10 : Digits[i] = c

DigitVal(c) == (CHOOSE i \in 1..10 : Digits[i] = c) - 1

Lower == { Ascii[i] : i \in 51..76 }

Upper == { Ascii[i] : i \in 21..46 }

\* Comparison of two strings by code units (JavaScript's default sort
\* order, PHP's strcmp): -1, 0 or 1.
RECURSIVE StrCmp(_, _)
StrCmp(a, b) ==
  IF a = <<>> /\ b = <<>> THEN 0
  ELSE IF a = <<>> THEN -1
  ELSE IF b = <<>> THEN 1
  ELSE IF Ord(Head(a)) < Ord(Head(b)) THEN -1
  ELSE IF Ord(Head(a)) > Ord(Head(b)) THEN 1
  ELSE StrCmp(Tail(a), Tail(b))

\* Number.prototype.toString / PHP (string) of an integer.
RECURSIVE NatToStr(_)
NatToStr(n) ==
  IF n < 10 THEN <<Digits[n + 1]>>
  ELSE NatToStr(n \div 10) \o <<Digits[(n % 10) + 1]>>

IntToStr(n) == IF n < 0 THEN <<"-">> \o NatToStr(0 - n) ELSE NatToStr(n)

\* Value of a string of digits.
RECURSIVE DigitsToNat(_, _)
DigitsToNat(s, acc) ==
  IF s = <<>> THEN acc
  ELSE DigitsToNat(Tail(s), acc * 10 + DigitVal(Head(s)))

\* Longest prefix of s made of digits.
RECURSIVE DigitPrefix(_)
DigitPrefix(s) ==
  IF s = <<>> \/ ~IsDigit(Head(s)) THEN <<>>
  ELSE <<Head(s)>> \o DigitPrefix(Tail(s))

\* s is the canonical decimal form of a non-negative integer ("0", "7",
\* "42", not "", "01").
IsCanonicalNat(s) ==
  /\ s # <<>>
  /\ \A i \in 1..Len(s) : IsDigit(s[i])
  /\ (Len(s) > 1 => s[1] # "0")

\* s[i..] starts with the string p.
StartsWithAt(s, i, p) ==
  /\ i + Len(p) - 1 <= Len(s)
  /\ \A j \in 1..Len(p) : s[i + j - 1] = p[j]

StartsWith(s, p) == StartsWithAt(s, 1, p)

Includes(s, p) == \E i \in 1..(Len(s) + 1) : StartsWithAt(s, i, p)

\* Array.prototype.join / implode.
RECURSIVE Join(_, _)
Join(parts, sep) ==
  IF parts = <<>> THEN <<>>
  ELSE IF Len(parts) = 1 THEN parts[1]
  ELSE parts[1] \o sep \o Join(Tail(parts), sep)

(***************************************************************************)
(* Symbolic cryptography                                                   *)
(***************************************************************************)

\* createHash('sha256').update(s).digest('hex') / hash('sha256', s):
\* an injective constructor, never the empty string.
Sha256(s) == <<"sha256(">> \o s \o <<")">>

\* createHmac('sha256', key).update(msg).digest('hex') / hash_hmac.
HmacSha256(key, msg) == <<"hmac(">> \o key \o <<"|">> \o msg \o <<")">>

(***************************************************************************)
(* JavaScript values (the result of request.json())                        *)
(*   t: "null" | "bool" | "num" | "str" | "arr" | "obj"                    *)
(*   kids: the elements of an array, or the properties of an object in     *)
(*   property order, each [k |-> key, v |-> value] (k = <<>> in arrays).   *)
(***************************************************************************)

JNull == [t |-> "null", b |-> FALSE, n |-> 0, s |-> <<>>, kids |-> <<>>]

JBool(x) == [t |-> "bool", b |-> x, n |-> 0, s |-> <<>>, kids |-> <<>>]

JNum(x) == [t |-> "num", b |-> FALSE, n |-> x, s |-> <<>>, kids |-> <<>>]

JStr(x) == [t |-> "str", b |-> FALSE, n |-> 0, s |-> x, kids |-> <<>>]

JArr(items) ==
  [t |-> "arr", b |-> FALSE, n |-> 0, s |-> <<>>,
   kids |-> [i \in 1..Len(items) |-> [k |-> <<>>, v |-> items[i]]]]

JProp(key, val) == [k |-> key, v |-> val]

\* Insertion of p into a sequence of properties sorted by numeric key.
RECURSIVE InsertByIndex(_, _)
InsertByIndex(ps, p) ==
  IF ps = <<>> THEN <<p>>
  ELSE IF DigitsToNat(p.k, 0) < DigitsToNat(Head(ps).k, 0)
       THEN <<p>> \o ps
       ELSE <<Head(ps)>> \o InsertByIndex(Tail(ps), p)

RECURSIVE SortByIndex(_)
SortByIndex(ps) ==
  IF ps = <<>> THEN <<>>
  ELSE InsertByIndex(SortByIndex(Tail(ps)), Head(ps))

\* The property order of an ordinary JavaScript object whose properties
\* were created in the order ps: integer-index keys first, in ascending
\* numeric order, then the other keys in creation order.
JsPropertyOrder(ps) ==
  SortByIndex(SelectSeq(ps, LAMBDA p : IsCanonicalNat(p.k)))
    \o SelectSeq(ps, LAMBDA p : ~IsCanonicalNat(p.k))

JObj(props) ==
  [t |-> "obj", b |-> FALSE, n |-> 0, s |-> <<>>,
   kids |-> JsPropertyOrder(props)]

\* !body
JsFalsy(v) ==
  \/ v.t = "null"
  \/ v.t = "bool" /\ ~v.b
  \/ v.t = "num" /\ v.n = 0
  \/ v.t = "str" /\ v.s = <<>>

\* Characters JSON.stringify and json_encode escape with a backslash
\* (among the characters of the model).
RECURSIVE JsonEscape(_)
JsonEscape(s) ==
  IF s = <<>> THEN <<>>
  ELSE (IF Head(s) \in {"\"", "\\"} THEN <<"\\", Head(s)>> ELSE <<Head(s)>>)
         \o JsonEscape(Tail(s))

JsonQuote(s) == <<"\"">> \o JsonEscape(s) \o <<"\"">>

\* JSON.stringify(v) without indentation.
RECURSIVE JsonStringify(_)
JsonStringify(v) ==
  CASE v.t = "null" -> <<"n", "u", "l", "l">>
    [] v.t = "bool" -> IF v.b THEN <<"t", "r", "u", "e">>
                              ELSE <<"f", "a", "l", "s", "e">>
    [] v.t = "num"  -> IntToStr(v.n)
    [] v.t = "str"  -> JsonQuote(v.s)
    [] v.t = "arr"  ->
         <<"[">> \o Join([i \in 1..Len(v.kids) |->
                            JsonStringify(v.kids[i].v)], <<",">>) \o <<"]">>
    [] v.t = "obj"  ->
         <<"{">> \o Join([i \in 1..Len(v.kids) |->
                            JsonQuote(v.kids[i].k) \o <<":">>
                              \o JsonStringify(v.kids[i].v)], <<",">>)
               \o <<"}">>

\* Array.prototype.sort() on property keys: ascending code-unit order.
RECURSIVE InsertByKey(_, _)
InsertByKey(ps, p) ==
  IF ps = <<>> THEN <<p>>
  ELSE IF StrCmp(p.k, Head(ps).k) < 0
       THEN <<p>> \o ps
       ELSE <<Head(ps)>> \o InsertByKey(Tail(ps), p)

RECURSIVE SortByKey(_)
SortByKey(ps) ==
  IF ps = <<>> THEN <<>>
  ELSE InsertByKey(SortByKey(Tail(ps)), Head(ps))

\* sortObjectKeys that sorts the keys of obj and leaves its values as they
\* are.
sortObjectKeys_Shallow(obj) ==
  IF obj.t # "obj" THEN obj
  ELSE LET keys == SortByKey(obj.kids)
       IN  [obj EXCEPT !.kids =
              JsPropertyOrder([i \in 1..Len(keys) |->
                [k |-> keys[i].k, v |-> keys[i].v]])]

\* sortObjectKeys(obj)
RECURSIVE sortObjectKeys(_)
sortObjectKeys(obj) ==
  IF obj.t \notin {"arr", "obj"} THEN obj
  ELSE IF obj.t = "arr"
  THEN [obj EXCEPT !.kids =
          [i \in 1..Len(obj.kids) |->
             [k |-> <<>>, v |-> sortObjectKeys(obj.kids[i].v)]]]
  ELSE LET keys == SortByKey(obj.kids)
       IN  [obj EXCEPT !.kids =
              JsPropertyOrder([i \in 1..Len(keys) |->
                [k |-> keys[i].k, v |-> sortObjectKeys(keys[i].v)]])]

\* jsonString.replace(/\s/g, '')
RECURSIVE StripWhitespace(_)
StripWhitespace(s) ==
  IF s = <<>> THEN <<>>
  ELSE (IF Head(s) = " " THEN <<>> ELSE <<Head(s)>>)
         \o StripWhitespace(Tail(s))

\* The string hashBody feeds to SHA-256 (compactJson).
compactJson(body) == StripWhitespace(JsonStringify(sortObjectKeys(body)))

\* hashBody(body)
hashBody(body) == IF JsFalsy(body) THEN <<>> ELSE Sha256(compactJson(body))

\* A timestamp in milliseconds: Date.now().toString()
TimestampOf_Millis(nowMs) == IntToStr(nowMs)

\* Math.floor(Date.now() / 1000).toString()
TimestampOf(nowMs) == IntToStr(nowMs \div 1000)

\* The payload format shared by both sides.
Payload(timestamp, method, path, bodyHash) ==
  timestamp \o <<":">> \o method \o <<":">> \o path \o <<":">> \o bodyHash

\* ensureHmacConfigured that never throws.
ensureHmacConfigured_Never(secret) == FALSE

\* ensureHmacConfigured(): TRUE when it throws.
ensureHmacConfigured(secret) == secret = <<>>

\* generateSignature(method, path, body), with the module constants
\* BFF_SECRET, BFF_ID and the clock reading as parameters.
generateSignature(secret, id, nowMs, method, path, body) ==
  IF ensureHmacConfigured(secret)
  THEN [threw |-> TRUE, id |-> <<>>, timestamp |-> <<>>,
        signature |-> <<>>, bodyHash |-> <<>>,
        hasBody |-> FALSE, normalizedBody |-> <<>>]
  ELSE LET timestamp == TimestampOf(nowMs)
           bodyHash == hashBody(body)
       IN  [threw |-> FALSE, id |-> id, timestamp |-> timestamp,
            signature |->
              HmacSha256(secret, Payload(timestamp, method, path, bodyHash)),
            bodyHash |-> bodyHash,
            hasBody |-> body.t # "null",
            normalizedBody |->
              IF body.t # "null" THEN JsonStringify(sortObjectKeys(body))
              ELSE <<>>]

(***************************************************************************)
(* PHP values (the result of json_decode($body, true))                     *)
(*   t: "null" | "bool" | "int" | "str" | "array"                          *)
(*   kids: the entries of an array in order, each with an integer key      *)
(*   (ik, kn) or a string key (ks) and a value v.                          *)
(***************************************************************************)

PNull == [t |-> "null", b |-> FALSE, n |-> 0, s |-> <<>>, kids |-> <<>>]

PBool(x) == [t |-> "bool", b |-> x, n |-> 0, s |-> <<>>, kids |-> <<>>]

PInt(x) == [t |-> "int", b |-> FALSE, n |-> x, s |-> <<>>, kids |-> <<>>]

PStr(x) == [t |-> "str", b |-> FALSE, n |-> 0, s |-> x, kids |-> <<>>]

PArray(entries) ==
  [t |-> "array", b |-> FALSE, n |-> 0, s |-> <<>>, kids |-> entries]

IntKey(i, val) == [ik |-> TRUE, kn |-> i, ks |-> <<>>, v |-> val]

StrKey(k, val) == [ik |-> FALSE, kn |-> 0, ks |-> k, v |-> val]

\* PHP stores a string key that is a canonical decimal integer as an
\* integer key.
PhpEntry(k, val) ==
  IF IsCanonicalNat(k) THEN IntKey(DigitsToNat(k, 0), val)
  ELSE IF Len(k) > 1 /\ k[1] = "-" /\ IsCanonicalNat(Tail(k)) /\ k[2] # "0"
  THEN IntKey(0 - DigitsToNat(Tail(k), 0), val)
  ELSE StrKey(k, val)

SameKey(e, f) == e.ik = f.ik /\ e.kn = f.kn /\ e.ks = f.ks

\* $array[$key] = $value: overwrite in place, or append.
PhpArraySet(entries, e) ==
  IF \E i \in 1..Len(entries) : SameKey(entries[i], e)
  THEN [i \in 1..Len(entries) |->
          IF SameKey(entries[i], e) THEN e ELSE entries[i]]
  ELSE Append(entries, e)

\* empty($x) for a string
PhpEmpty(s) == s = <<>> \/ s = <<"0">>

\* (int) $string: the leading integer, or 0.
PhpIntCast(s) ==
  IF s # <<>> /\ Head(s) = "-"
  THEN 0 - DigitsToNat(DigitPrefix(Tail(s)), 0)
  ELSE DigitsToNat(DigitPrefix(s), 0)

ParseFail == [ok |-> FALSE, v |-> PNull, i |-> 0]

ParseOk(val, next) == [ok |-> TRUE, v |-> val, i |-> next]

\* A JSON string literal, from the character after the opening quote.
RECURSIVE ParseString(_, _, _)
ParseString(s, i, acc) ==
  IF i > Len(s) THEN ParseFail
  ELSE IF s[i] = "\"" THEN ParseOk(PStr(acc), i + 1)
  ELSE IF s[i] = "\\"
  THEN IF i + 1 <= Len(s) /\ s[i + 1] \in {"\"", "\\", "/"}
       THEN ParseString(s, i + 2, Append(acc, s[i + 1]))
       ELSE ParseFail
  ELSE ParseString(s, i + 1, Append(acc, s[i]))

\* A JSON integer literal.
ParseNumber(s, i) ==
  LET neg == s[i] = "-"
      from == IF neg THEN i + 1 ELSE i
      ds == DigitPrefix(SubSeq(s, from, Len(s)))
  IN  IF ~IsCanonicalNat(ds) THEN ParseFail
      ELSE ParseOk(PInt(IF neg THEN 0 - DigitsToNat(ds, 0)
                        ELSE DigitsToNat(ds, 0)), from + Len(ds))

RECURSIVE ParseValue(_, _)
RECURSIVE ParseItems(_, _, _)
RECURSIVE ParseMembers(_, _, _)

\* The JSON value starting at s[i].
ParseValue(s, i) ==
  IF i > Len(s) THEN ParseFail
  ELSE IF StartsWithAt(s, i, <<"n", "u", "l", "l">>) THEN ParseOk(PNull, i + 4)
  ELSE IF StartsWithAt(s, i, <<"t", "r", "u", "e">>)
  THEN ParseOk(PBool(TRUE), i + 4)
  ELSE IF StartsWithAt(s, i, <<"f", "a", "l", "s", "e">>)
  THEN ParseOk(PBool(FALSE), i + 5)
  ELSE IF s[i] = "\"" THEN ParseString(s, i + 1, <<>>)
  ELSE IF s[i] = "-" \/ IsDigit(s[i]) THEN ParseNumber(s, i)
  ELSE IF s[i] = "["
  THEN IF StartsWithAt(s, i + 1, <<"]">>) THEN ParseOk(PArray(<<>>), i + 2)
       ELSE ParseItems(s, i + 1, <<>>)
  ELSE IF s[i] = "{"
  THEN IF StartsWithAt(s, i + 1, <<"}">>) THEN ParseOk(PArray(<<>>), i + 2)
       ELSE ParseMembers(s, i + 1, <<>>)
  ELSE ParseFail

\* The elements of a JSON array: a PHP list with keys 0, 1, ...
ParseItems(s, i, acc) ==
  LET r == ParseValue(s, i)
      acc2 == Append(acc, IntKey(Len(acc), r.v))
  IN  IF ~r.ok THEN ParseFail
      ELSE IF StartsWithAt(s, r.i, <<",">>) THEN ParseItems(s, r.i + 1, acc2)
      ELSE IF StartsWithAt(s, r.i, <<"]">>) THEN ParseOk(PArray(acc2), r.i + 1)
      ELSE ParseFail

\* The members of a JSON object: with assoc = true, a PHP array.
ParseMembers(s, i, acc) ==
  IF ~StartsWithAt(s, i, <<"\"">>) THEN ParseFail
  ELSE LET k == ParseString(s, i + 1, <<>>)
       IN  IF ~k.ok \/ ~StartsWithAt(s, k.i, <<":">>) THEN ParseFail
           ELSE LET r == ParseValue(s, k.i + 1)
                    acc2 == PhpArraySet(acc, PhpEntry(k.v.s, r.v))
                IN  IF ~r.ok THEN ParseFail
                    ELSE IF StartsWithAt(s, r.i, <<",">>)
                    THEN ParseMembers(s, r.i + 1, acc2)
                    ELSE IF StartsWithAt(s, r.i, <<"}">>)
                    THEN ParseOk(PArray(acc2), r.i + 1)
                    ELSE ParseFail

\* json_decode($body, true): null when the text is not JSON.
json_decode(s) ==
  LET r == ParseValue(s, 1)
  IN  IF r.ok /\ r.i = Len(s) + 1 THEN r.v ELSE PNull

\* The comparison ksort() applies to two keys (PHP 8): -1, 0 or 1.
KeyCmp(e, f) ==
  LET num(x) == IF x.ik THEN x.kn ELSE DigitsToNat(x.ks, 0)
      isnum(x) == x.ik \/ (x.ks # <<>> /\ DigitPrefix(x.ks) = x.ks)
      str(x) == IF x.ik THEN IntToStr(x.kn) ELSE x.ks
  IN  IF isnum(e) /\ isnum(f)
      THEN (IF num(e) < num(f) THEN -1 ELSE IF num(e) > num(f) THEN 1 ELSE 0)
      ELSE StrCmp(str(e), str(f))

RECURSIVE KsortInsert(_, _)
KsortInsert(es, e) ==
  IF es = <<>> THEN <<e>>
  ELSE IF KeyCmp(e, Head(es)) < 0 THEN <<e>> \o es
  ELSE <<Head(es)>> \o KsortInsert(Tail(es), e)

\* ksort($array)
RECURSIVE ksort(_)
ksort(es) ==
  IF es = <<>> THEN <<>>
  ELSE KsortInsert(ksort(Tail(es)), Head(es))

\* HmacValidator::sortArrayKeys($array), on the entries of the array.
RECURSIVE sortArrayKeys(_)
sortArrayKeys(es) ==
  LET sorted == ksort(es)
  IN  [i \in 1..Len(sorted) |->
         IF sorted[i].v.t = "array"
         THEN [sorted[i] EXCEPT !.v = PArray(sortArrayKeys(sorted[i].v.kids))]
         ELSE sorted[i]]

\* array_is_list: the keys are 0, 1, ..., n-1 in this order.
IsList(es) == \A i \in 1..Len(es) : es[i].ik /\ es[i].kn = i - 1

\* json_encode($data, JSON_UNESCAPED_SLASHES | JSON_UNESCAPED_UNICODE)
RECURSIVE json_encode(_)
json_encode(v) ==
  CASE v.t = "null" -> <<"n", "u", "l", "l">>
    [] v.t = "bool" -> IF v.b THEN <<"t", "r", "u", "e">>
                              ELSE <<"f", "a", "l", "s", "e">>
    [] v.t = "int"  -> IntToStr(v.n)
    [] v.t = "str"  -> JsonQuote(v.s)
    [] v.t = "array" ->
         IF IsList(v.kids)
         THEN <<"[">> \o Join([i \in 1..Len(v.kids) |->
                                 json_encode(v.kids[i].v)], <<",">>)
                \o <<"]">>
         ELSE <<"{">> \o Join([i \in 1..Len(v.kids) |->
                                 JsonQuote(IF v.kids[i].ik
                                           THEN IntToStr(v.kids[i].kn)
                                           ELSE v.kids[i].ks)
                                   \o <<":">> \o json_encode(v.kids[i].v)],
                              <<",">>)
                \o <<"}">>

\* The string HmacValidator::hashBody feeds to hash('sha256', ...).
phpNormalizedBody(content) ==
  LET data == json_decode(content)
  IN  IF data.t = "array" THEN json_encode(PArray(sortArrayKeys(data.kids)))
      ELSE content

\* HmacValidator::hashBody($request)
phpHashBody(content) ==
  IF PhpEmpty(content) THEN <<>> ELSE Sha256(phpNormalizedBody(content))

(***************************************************************************)
(* HmacValidator (Laravel side)                                            *)
(* A request is [hasId, id, hasTs, ts, hasSig, sig, method, path, content];*)
(* a result is [valid, error, missing].                                    *)
(***************************************************************************)

TIMESTAMP_TOLERANCE == 300

Valid == [valid |-> TRUE, error |-> "", missing |-> <<>>]

Invalid(msg) == [valid |-> FALSE, error |-> msg, missing |-> <<>>]

\* HmacValidator::validateHeaders
validateHeaders(r) ==
  LET missingHeaders ==
        (IF r.hasId THEN <<>> ELSE <<"X-BFF-Id">>)
          \o (IF r.hasTs THEN <<>> ELSE <<"X-BFF-Timestamp">>)
          \o (IF r.hasSig THEN <<>> ELSE <<"X-BFF-Signature">>)
  IN  IF missingHeaders # <<>>
      THEN [valid |-> FALSE, error |-> "Missing required headers",
            missing |-> missingHeaders]
      ELSE Valid

\* validateBffId accepting every id.
validateBffId_Any(r, expectedId) == Valid

\* HmacValidator::validateBffId
validateBffId(r, expectedId) ==
  IF r.id # expectedId THEN Invalid("Invalid BFF ID") ELSE Valid

Abs(x) == IF x < 0 THEN 0 - x ELSE x

\* validateTimestamp with $diff >= TIMESTAMP_TOLERANCE.
validateTimestamp_Strict(r, now) ==
  IF Abs(now - PhpIntCast(r.ts)) >= TIMESTAMP_TOLERANCE
  THEN Invalid("Timestamp validation failed")
  ELSE Valid

\* HmacValidator::validateTimestamp
validateTimestamp(r, now) ==
  LET timestamp == PhpIntCast(r.ts)
      diff == Abs(now - timestamp)
  IN  IF diff > TIMESTAMP_TOLERANCE
      THEN Invalid("Timestamp validation failed")
      ELSE Valid

\* HmacValidator::generatePayload
generatePayload(r) == Payload(r.ts, r.method, r.path, phpHashBody(r.content))

\* The number of leading characters in which known and user agree.
RECURSIVE MatchingPrefix(_, _)
MatchingPrefix(known, user) ==
  IF known = <<>> \/ user = <<>> \/ Head(known) # Head(user) THEN 0
  ELSE 1 + MatchingPrefix(Tail(known), Tail(user))

\* A comparison that stops at the first character that differs (===,
\* strcmp): steps is the number of character pairs it looks at.
hash_equals_ShortCircuit(known, user) ==
  LET n == MatchingPrefix(known, user)
      shorter == IF Len(known) < Len(user) THEN Len(known) ELSE Len(user)
  IN  [equal |-> known = user,
       steps |-> IF n < shorter THEN n + 1 ELSE n]

\* hash_equals($known, $user): FALSE at once when the lengths differ;
\* otherwise every pair of characters is combined into the result before
\* the result is looked at. steps is the number of pairs it looks at.
hash_equals(known, user) ==
  IF Len(known) # Len(user) THEN [equal |-> FALSE, steps |-> 0]
  ELSE [equal |-> \A i \in 1..Len(known) : known[i] = user[i],
        steps |-> Len(known)]

\* validateSignature comparing only the length of the two signatures.
validateSignature_LengthOnly(r, payload, secret) ==
  IF PhpEmpty(secret) THEN Invalid("BFF authentication misconfigured")
  ELSE IF Len(HmacSha256(secret, payload)) # Len(r.sig)
  THEN Invalid("Invalid signature")
  ELSE Valid

\* HmacValidator::validateSignature
validateSignature(r, payload, secret) ==
  IF PhpEmpty(secret) THEN Invalid("BFF authentication misconfigured")
  ELSE LET expectedSignature == HmacSha256(secret, payload)
       IN  IF ~hash_equals(expectedSignature, r.sig).equal
           THEN Invalid("Invalid signature")
           ELSE Valid

\* validate with the timestamp stage run before the id stage.
validate_TimestampFirst(r, now, expectedId, secret) ==
  IF ~validateHeaders(r).valid THEN validateHeaders(r)
  ELSE IF ~validateTimestamp(r, now).valid THEN validateTimestamp(r, now)
  ELSE IF ~validateBffId(r, expectedId).valid
  THEN validateBffId(r, expectedId)
  ELSE validateSignature(r, generatePayload(r), secret)

\* HmacValidator::validate
validate(r, now, expectedId, secret) ==
  IF ~validateHeaders(r).valid THEN validateHeaders(r)
  ELSE IF ~validateBffId(r, expectedId).valid
  THEN validateBffId(r, expectedId)
  ELSE IF ~validateTimestamp(r, now).valid THEN validateTimestamp(r, now)
  ELSE validateSignature(r, generatePayload(r), secret)

\* The validation of r gets to the comparison of the signatures.
ComparesSignature(r, now, expectedId, secret) ==
  /\ validateHeaders(r).valid
  /\ validateBffId(r, expectedId).valid
  /\ validateTimestamp(r, now).valid
  /\ ~PhpEmpty(secret)

\* The character pairs the validation of r looks at when it compares the
\* signatures (0 when it does not get there).
ComparisonSteps(r, now, expectedId, secret) ==
  IF ComparesSignature(r, now, expectedId, secret)
  THEN hash_equals(HmacSha256(secret, generatePayload(r)), r.sig).steps
  ELSE 0

(***************************************************************************)
(* Path Guard and URL construction (gateway side)                          *)
(***************************************************************************)

\* The pattern with '.' allowed: /^[a-zA-Z0-9_.-]+$/
SAFE_PATH_SEGMENT_Dot(segment) ==
  /\ segment # <<>>
  /\ \A i \in 1..Len(segment) :
       \/ segment[i] \in Lower \cup Upper
       \/ IsDigit(segment[i])
       \/ segment[i] \in {"_", "-", "."}

\* SAFE_PATH_SEGMENT = /^[a-zA-Z0-9_-]+$/
SAFE_PATH_SEGMENT(segment) ==
  /\ segment # <<>>
  /\ \A i \in 1..Len(segment) :
       \/ segment[i] \in Lower \cup Upper
       \/ IsDigit(segment[i])
       \/ segment[i] \in {"_", "-"}

\* The checks on one segment with the pattern tested first.
SegmentError_RegexFirst(segment) ==
  IF ~SAFE_PATH_SEGMENT(segment) THEN "Invalid path: forbidden characters"
  ELSE IF segment = <<".", ".">> \/ segment = <<".">>
  THEN "Invalid path: traversal not allowed"
  ELSE ""

\* The check validatePathSegments applies to one segment: "" when the
\* segment passes, the message of the exception otherwise.
SegmentError(segment) ==
  IF segment = <<>> THEN "Invalid path: empty segment"
  ELSE IF segment = <<".", ".">> \/ segment = <<".">>
  THEN "Invalid path: traversal not allowed"
  ELSE IF Includes(segment, <<":", "/", "/">>)
            \/ StartsWith(segment, <<"/", "/">>)
  THEN "Invalid path: absolute URLs not allowed"
  ELSE IF ~SAFE_PATH_SEGMENT(segment)
  THEN "Invalid path: forbidden characters"
  ELSE ""

\* validatePathSegments(segments): "" when it returns, the message of the
\* BffException it throws otherwise (that of the first offending segment).
RECURSIVE validatePathSegments(_)
validatePathSegments(segments) ==
  IF segments = <<>> THEN ""
  ELSE IF SegmentError(Head(segments)) # "" THEN SegmentError(Head(segments))
  ELSE validatePathSegments(Tail(segments))

\* `/api/v1/${pathSegments.join('/')}` without its leading slash.
LaravelPath(segments) ==
  <<"a", "p", "i", "/", "v", "1", "/">> \o Join(segments, <<"/">>)

\* host of LARAVEL_API_URL (default http://localhost:8000)
ExpectedHost == <<"localhost:8000">>

\* A relative reference that starts with a URL scheme ("x:", "http:...").
HasScheme(rel) ==
  \E i \in 2..Len(rel) :
    /\ rel[i] = ":"
    /\ rel[1] \in Lower \cup Upper
    /\ \A j \in 2..(i - 1) :
         rel[j] \in Lower \cup Upper \/ IsDigit(rel[j]) \/ rel[j] \in {"-", "."}

\* new URL(laravelPath, LARAVEL_API_URL).host: the base host unless the
\* reference is absolute or scheme-relative.
UrlHost(rel) ==
  IF HasScheme(rel) \/ StartsWith(rel, <<"/", "/">>)
  THEN <<"foreign-host">>
  ELSE ExpectedHost

publicRoutes ==
  { <<"a","p","i","/","v","1","/","a","u","t","h","/","l","o","g","i","n">>,
    <<"a","p","i","/","v","1","/","a","u","t","h","/",
      "r","e","g","i","s","t","e","r">>,
    <<"a","p","i","/","v","1","/","a","u","t","h","/",
      "p","r","o","v","i","d","e","r","s">> }

\* A public-route test that every path passes.
isPublicRoute_Always(laravelPath) == TRUE

isPublicRoute(laravelPath) ==
  \E route \in publicRoutes : StartsWith(laravelPath, route)

(***************************************************************************)
(* State                                                                   *)
(***************************************************************************)

VARIABLES
  BFF_SECRET,   \* process.env.BFF_HMAC_SECRET || '' (gateway)
  cfgSecret,    \* config('services.bff.secret') (upstream)
  cfgId,        \* config('services.bff.id') (upstream)
  pc,           \* position of proxyRequest: "idle", "fetching" (awaiting
                \* fetch), "reading" (awaiting response.text()), "done"
  req,          \* the inbound request proxyRequest is serving
  hmacResult,   \* what generateSignature returned to proxyRequest
  wire,         \* the request the upstream has received
  vres,         \* what HmacValidator::validate returned for it
  resp,         \* the response proxyRequest returned
  authCookie,   \* the caller's auth_token cookie
  response,     \* the upstream response fetch resolved with
  elapsed,      \* BFF_TIMEOUT ms have passed since fetch was called
  calls,        \* fetch calls made for the request being served
  canonIn,      \* a JSON value given to sortObjectKeys
  canonAlt,     \* the same value, its keys inserted in another order
  canonOut,     \* the serializations of the canonical forms
  other,        \* a second execution of proxyRequest, in flight at the
                \* same time for the same caller
  action,       \* a server action (bffRequest) being executed
  nav,          \* a page request and what the route middleware did with it
  order         \* history: the order in which the upstream issued tokens
                \* to the two executions and in which the caller received
                \* them

canonVars == <<canonIn, canonAlt, canonOut>>

\* What proxyRequest for the first request and the upstream leave alone.
sideVars == <<canonIn, canonAlt, canonOut, other, action, nav, order>>

\* The state of the first execution of proxyRequest and of the upstream.
gatewayVars ==
  <<BFF_SECRET, cfgSecret, cfgId, pc, req, hmacResult, wire, vres, resp,
    response, elapsed, calls>>

vars ==
  <<BFF_SECRET, cfgSecret, cfgId, pc, req, hmacResult, wire, vres, resp,
    authCookie, response, elapsed, calls, canonIn, canonAlt, canonOut,
    other, action, nav, order>>

\* export const BFF_ID = process.env.BFF_ID || 'nextjs-bff-prod'
BFF_ID == <<"nextjs-bff-prod">>

GET == <<"G", "E", "T">>

POST == <<"P", "O", "S", "T">>

HEAD == <<"H", "E", "A", "D">>

(***************************************************************************)
(* Inputs                                                                  *)
(***************************************************************************)

Secrets == {<<>>, <<"k">>}

UpstreamSecrets == {<<>>, <<"k">>}

UpstreamIds == {BFF_ID, <<"other-bff">>}

Methods == {GET, POST}

\* Segment lists of the inbound route [...path] (never empty).
SegLists ==
  { <<<<"u","s","e","r","s">>, <<"4","2">>, <<"r","o","l","e","s">>>>,
    <<<<"a","u","t","h">>, <<"l","o","g","i","n">>>>,
    <<<<".", ".">>, <<"e","t","c">>>>,
    <<<<"h","t","t","p",":">>, <<>>, <<"e","v","i","l",".","c","o","m">>>>,
    <<<<"a"," ","b">>>>,
    <<<<".">>>>,
    <<<<"a">>, <<>>>>,
    <<<<"a",":","/","/","b">>>>,
    <<<<"u","s","e","r","s">>, <<"/","/","x">>>>,
    <<<<"a","u","t","h">>, <<"l","o","g","i","n","2">>>> }

ExampleBody ==
  JObj(<<JProp(<<"b">>, JNum(1)),
         JProp(<<"a">>, JArr(<<JNum(2), JNum(1)>>))>>)

\* Values request.json() can return.
Bodies ==
  { ExampleBody,
    JObj(<<>>),
    JObj(<<JProp(<<"n">>, JStr(<<"a", " ", "b">>))>>),
    JObj(<<JProp(<<"b">>, JObj(<<JProp(<<"d">>, JNull),
                                JProp(<<"c">>, JBool(TRUE))>>)),
           JProp(<<"a">>, JStr(<<"x">>))>>),
    JObj(<<JProp(<<"1">>, JNum(7)), JProp(<<"0">>, JNum(8))>>),
    JArr(<<>>),
    JArr(<<JNum(12), JObj(<<JProp(<<"b">>, JNum(1)),
                           JProp(<<"a">>, JNum(2))>>)>>),
    JBool(FALSE),
    JNum(0),
    JNum(5),
    JStr(<<>>),
    JStr(<<"a">>) }

\* What clonedRequest.json() does: returns a value, or throws.
BodyInputs ==
  {[ok |-> FALSE, v |-> JNull]} \cup {[ok |-> TRUE, v |-> b] : b \in Bodies}

\* The caller's auth_token cookie (<<>>: none).
Tokens == {<<>>, <<"t", "0">>}

\* Readings of Date.now() (milliseconds).
ClockMs == {600999, 601000}

\* Upstream clock minus the timestamp of the request it validates.
Skews == {-301, -300, -299, 0, 299, 300, 301}

NoReq ==
  [method |-> <<>>, segments |-> <<>>, jsonCT |-> FALSE,
   json |-> [ok |-> FALSE, v |-> JNull], nowMs |-> 0, query |-> <<>>,
   token |-> <<>>]

NoHmac ==
  [threw |-> FALSE, id |-> <<>>, timestamp |-> <<>>, signature |-> <<>>,
   bodyHash |-> <<>>, hasBody |-> FALSE, normalizedBody |-> <<>>]

NoWire ==
  [present |-> FALSE, origin |-> "none",
   hasId |-> FALSE, id |-> <<>>, hasTs |-> FALSE, ts |-> <<>>,
   hasSig |-> FALSE, sig |-> <<>>,
   host |-> <<>>, method |-> <<>>, path |-> <<>>, query |-> <<>>,
   content |-> <<>>, auth |-> <<>>]

\* times: how often the request on the wire has been validated.
NoVres ==
  [done |-> FALSE, valid |-> FALSE, error |-> "", missing |-> <<>>, now |-> 0,
   times |-> 0, steps |-> 0]

\* A response of the upstream: status and body (JSON text of v, or text
\* that JSON.parse rejects).
\* headers: the entries of its Headers object, [k |-> name, v |-> value],
\* one entry for each Set-Cookie header.
NoUp == [status |-> 0, json |-> FALSE, v |-> JNull, headers |-> <<>>]

\* No Set-Cookie written by proxyRequest.
NoCookie ==
  [name |-> "", value |-> <<>>, httpOnly |-> FALSE, sameSite |-> "",
   path |-> "", expiresDays |-> 0]

NoResp ==
  [status |-> 0, error |-> "", code |-> "", message |-> "",
   relayed |-> FALSE, up |-> NoUp, cookie |-> NoCookie, headers |-> <<>>]

TokenBody(tok) ==
  JObj(<<JProp(<<"d","a","t","a">>,
           JObj(<<JProp(<<"a","c","c","e","s","s","_","t","o","k","e","n">>,
                        JStr(tok))>>))>>)

UpResponses ==
  { [status |-> st, json |-> j, v |-> b, headers |-> <<>>] :
      st \in {200, 401},
      j \in {TRUE},
      b \in {TokenBody(<<"t", "1">>), TokenBody(<<>>), JObj(<<>>), JNull} }
    \cup { [status |-> st, json |-> FALSE, v |-> JNull, headers |-> <<>>] :
             st \in {200, 204, 304, 502} }

\* The Response object of fetch: the upstream's answer, and whether
\* response.text() has delivered its body.
NoResponse ==
  [status |-> 0, json |-> FALSE, v |-> JNull, headers |-> <<>>,
   read |-> FALSE]

\* The status and body of a Response object.
ResponseData(r) ==
  [status |-> r.status, json |-> r.json, v |-> r.v, headers |-> r.headers]

Header(name, value) == [k |-> name, v |-> value]

SetCookieKey == <<"set-cookie">>

ContentTypeJson ==
  Header(<<"content-type">>, <<"application/json">>)

RequestId == Header(<<"x-request-id">>, <<"7">>)

\* Set-Cookie values: name, '=', value, ';' and the attributes.
SessionCookieA == <<"s", "=", "1", ";", " Path=/a">>

SessionCookieB == <<"s", "=", "2", ";", " Path=/b">>

XsrfCookie == <<"x", "=", "3", ";", " Path=/">>

\* Upstream responses with headers and cookies.
HeaderResponses ==
  { [status |-> 200, json |-> TRUE, v |-> b, headers |-> h] :
      b \in {TokenBody(<<"t", "1">>), JObj(<<>>)},
      h \in { <<ContentTypeJson, RequestId>>,
              <<ContentTypeJson, Header(SetCookieKey, SessionCookieA),
                Header(SetCookieKey, XsrfCookie), RequestId>>,
              <<ContentTypeJson, Header(SetCookieKey, SessionCookieA),
                Header(SetCookieKey, SessionCookieB)>>,
              <<Header(SetCookieKey, XsrfCookie)>> } }

(***************************************************************************)
(* proxyRequest                                                            *)
(***************************************************************************)

\* NextResponse.json({ error: error.message, code: error.code }, 500)
BffErrorResponse(msg, errcode) ==
  [NoResp EXCEPT !.status = 500, !.error = msg, !.code = errcode]

\* NextResponse.json({ error: 'Internal server error', ... }, 500)
GenericErrorResponse ==
  [NoResp EXCEPT !.status = 500, !.error = "Internal server error",
                 !.message = "Failed to proxy request"]

\* NextResponse.json({ error: 'Unauthorized', ... }, 401)
UnauthorizedResponse ==
  [NoResp EXCEPT !.status = 401, !.error = "Unauthorized",
                 !.message = "No auth token found"]

\* proxyRequest without the call to validatePathSegments.
PathCheck_Skipped(segments) == ""

\* The call validatePathSegments(pathSegments) in proxyRequest.
PathCheck(segments) == validatePathSegments(segments)

\* A body read whatever the method is.
ParsedBody_AnyMethod(method, jsonCT, json) ==
  IF jsonCT /\ json.ok THEN json.v ELSE JNull

\* The body proxyRequest passes to generateSignature: what
\* clonedRequest.json() returns, for a method other than GET and HEAD and a
\* content-type that includes 'application/json'; null otherwise, and when
\* json() throws.
ParsedBody(method, jsonCT, json) ==
  IF method # GET /\ method # HEAD /\ jsonCT /\ json.ok THEN json.v
  ELSE JNull

\* The inbound query strings (request.nextUrl.searchParams): sequences of
\* [k |-> key, v |-> value].
QParam(key, value) == [k |-> key, v |-> value]

Queries ==
  { <<>>,
    <<QParam(<<"q">>, <<"1">>)>>,
    <<QParam(<<"a">>, <<"1">>), QParam(<<"b">>, <<"2">>)>>,
    <<QParam(<<"a">>, <<"1">>), QParam(<<"b">>, <<"2">>),
      QParam(<<"a">>, <<"3">>)>> }

\* URLSearchParams.append(key, value) in the place of set.
SearchParamsSet_Append(params, key, value) ==
  Append(params, QParam(key, value))

\* URLSearchParams.set(key, value): the first pair named key takes the
\* value and the other pairs named key are removed; without such a pair
\* the new pair is appended.
SearchParamsSet(params, key, value) ==
  IF \E i \in 1..Len(params) : params[i].k = key
  THEN LET first == CHOOSE i \in 1..Len(params) :
                      /\ params[i].k = key
                      /\ \A j \in 1..(i - 1) : params[j].k # key
           keep == { i \in 1..Len(params) : params[i].k # key \/ i = first }
           RECURSIVE Build(_)
           Build(i) ==
             IF i > Len(params) THEN <<>>
             ELSE (IF i \in keep
                   THEN <<IF i = first THEN QParam(key, value) ELSE params[i]>>
                   ELSE <<>>) \o Build(i + 1)
       IN  Build(1)
  ELSE Append(params, QParam(key, value))

\* searchParams.forEach((value, key) => laravelUrl.searchParams.set(key,
\* value)) on a URL that has no query yet.
RECURSIVE CopyQueryInto(_, _)
CopyQueryInto(params, query) ==
  IF query = <<>> THEN params
  ELSE CopyQueryInto(SearchParamsSet(params, Head(query).k, Head(query).v),
                     Tail(query))

CopyQuery(query) == CopyQueryInto(<<>>, query)

\* The serialization of a query: k=v pairs joined by '&'.
QueryString(query) ==
  Join([i \in 1..Len(query) |-> query[i].k \o <<"=">> \o query[i].v],
       <<"&">>)

\* A signed path that carries the inbound query string.
SignedPath_WithQuery(laravelPath, query) ==
  IF query = <<>> THEN laravelPath
  ELSE laravelPath \o <<"?">> \o QueryString(query)

\* The path proxyRequest passes to generateSignature(method, laravelPath,
\* body): the query is no part of it.
SignedPath(laravelPath, query) == laravelPath

\* An Authorization header without the Bearer scheme.
BearerHeader_Bare(authToken) == authToken

\* headers['Authorization'] = `Bearer ${authToken}`, set when authToken is
\* truthy (<<>>: no header).
BearerHeader(authToken) ==
  IF authToken = <<>> THEN <<>>
  ELSE <<"B", "e", "a", "r", "e", "r", " ">> \o authToken

\* fetch called with the inbound request's URL instead of laravelUrl.
FetchRequest_InboundUrl(method, laravelPath, query, h, token) ==
  [present |-> TRUE, origin |-> "gateway",
   hasId |-> TRUE, id |-> h.id, hasTs |-> TRUE, ts |-> h.timestamp,
   hasSig |-> TRUE, sig |-> h.signature,
   host |-> <<"gateway-host">>,
   method |-> method, path |-> laravelPath,
   query |-> CopyQuery(query),
   content |-> IF h.hasBody THEN h.normalizedBody ELSE <<>>,
   auth |-> BearerHeader(token)]

\* The request fetch(laravelUrl, options) sends.
FetchRequest(method, laravelPath, query, h, token) ==
  [present |-> TRUE, origin |-> "gateway",
   hasId |-> TRUE, id |-> h.id, hasTs |-> TRUE, ts |-> h.timestamp,
   hasSig |-> TRUE, sig |-> h.signature,
   host |-> UrlHost(laravelPath),
   method |-> method, path |-> laravelPath,
   query |-> CopyQuery(query),
   content |-> IF h.hasBody THEN h.normalizedBody ELSE <<>>,
   auth |-> BearerHeader(token)]

(***************************************************************************)
(* History of the token traffic of the two executions of proxyRequest:     *)
(* issued lists the tokens in the order the fetch calls resolved with      *)
(* them, received the tokens in the order the caller was handed the        *)
(* responses that set them. An entry is [by, token].                       *)
(***************************************************************************)

NoOrder == [issued |-> <<>>, received |-> <<>>]

\* The entries of s that are not those of execution who.
Without(s, who) == SelectSeq(s, LAMBDA e : e.by # who)

\* Execution who starts a request: what its previous request left is
\* dropped, and everything is when the other execution is not in flight.
Started(o, who, alone) ==
  IF alone THEN NoOrder
  ELSE [issued |-> Without(o.issued, who),
        received |-> Without(o.received, who)]

\* The fetch call of execution who resolved with a response that carries
\* token tok (<<>>: none).
Issued(o, who, tok) ==
  IF tok = <<>> THEN o
  ELSE [o EXCEPT !.issued = Append(@, [by |-> who, token |-> tok])]

\* The caller is handed the response of execution who. A request that
\* overlapped with no other leaves no order to record.
Received(o, who, cookie, alone) ==
  LET after == IF cookie.name # "auth_token" THEN o
               ELSE [o EXCEPT !.received =
                       Append(@, [by |-> who, token |-> cookie.value])]
  IN  IF /\ alone
         /\ Without(o.issued, who) = <<>>
         /\ Without(o.received, who) = <<>>
      THEN NoOrder
      ELSE after

\* proxyRequest with the auth_token test moved before generateSignature.
ProxyOutcome_CredentialFirst(secret, token, method, segments, jsonCT, json, nowMs, query) ==
  LET laravelPath == LaravelPath(segments)
      body == ParsedBody(method, jsonCT, json)
      h == generateSignature(secret, BFF_ID, nowMs, method,
                             SignedPath(laravelPath, query), body)
      out(f, r, hm, w) == [fetch |-> f, resp |-> r, hmac |-> hm, wire |-> w]
  IN  IF PathCheck(segments) # ""
      THEN out(FALSE, BffErrorResponse(PathCheck(segments),
                                       "INVALID_SIGNATURE"), NoHmac, NoWire)
      ELSE IF UrlHost(laravelPath) # ExpectedHost
      THEN out(FALSE, BffErrorResponse("Invalid request: host mismatch",
                                       "INVALID_SIGNATURE"), NoHmac, NoWire)
      ELSE IF token = <<>> /\ ~isPublicRoute(laravelPath)
      THEN out(FALSE, UnauthorizedResponse, NoHmac, NoWire)
      ELSE IF h.threw
      THEN out(FALSE, GenericErrorResponse, NoHmac, NoWire)
      ELSE out(TRUE, NoResp, h,
               FetchRequest(method, laravelPath, query, h, token))

\* proxyRequest from its entry to the fetch call or to an early return:
\* the response it returns (fetch = FALSE) or the request it sends.
ProxyOutcome(secret, token, method, segments, jsonCT, json, nowMs, query) ==
  LET laravelPath == LaravelPath(segments)
      body == ParsedBody(method, jsonCT, json)
      h == generateSignature(secret, BFF_ID, nowMs, method,
                             SignedPath(laravelPath, query), body)
      out(f, r, hm, w) == [fetch |-> f, resp |-> r, hmac |-> hm, wire |-> w]
  IN  IF PathCheck(segments) # ""
      THEN out(FALSE, BffErrorResponse(PathCheck(segments),
                                       "INVALID_SIGNATURE"), NoHmac, NoWire)
      ELSE IF UrlHost(laravelPath) # ExpectedHost
      THEN out(FALSE, BffErrorResponse("Invalid request: host mismatch",
                                       "INVALID_SIGNATURE"), NoHmac, NoWire)
      ELSE IF h.threw
      THEN out(FALSE, GenericErrorResponse, NoHmac, NoWire)
      ELSE IF token = <<>> /\ ~isPublicRoute(laravelPath)
      THEN out(FALSE, UnauthorizedResponse, h, NoWire)
      ELSE out(TRUE, NoResp, h,
               FetchRequest(method, laravelPath, query, h, token))

ProxyRequest(method, segments, jsonCT, json, nowMs, query) ==
  /\ pc = "idle"
  /\ ~wire.present
  /\ LET o == ProxyOutcome(BFF_SECRET, authCookie, method, segments,
                           jsonCT, json, nowMs, query)
     IN  /\ req' = [method |-> method, segments |-> segments,
                    jsonCT |-> jsonCT, json |-> json, nowMs |-> nowMs,
                    query |-> query, token |-> authCookie]
         /\ hmacResult' = o.hmac
         /\ resp' = o.resp
         /\ wire' = o.wire
         /\ pc' = IF o.fetch THEN "fetching" ELSE "done"
         /\ calls' = IF o.fetch THEN 1 ELSE 0
  /\ UNCHANGED <<BFF_SECRET, cfgSecret, cfgId, vres, authCookie, response,
                 elapsed>>
  /\ order' = Started(order, "first", other.pc = "idle")
  /\ UNCHANGED <<canonVars, other, action, nav>>

\* Property p of a JavaScript value (undefined is returned as JNull).
GetProp(v, p) ==
  IF v.t = "obj" /\ \E i \in 1..Len(v.kids) : v.kids[i].k = p
  THEN v.kids[CHOOSE i \in 1..Len(v.kids) : v.kids[i].k = p].v
  ELSE JNull

\* An access token taken from the response text when JSON.parse throws.
AccessToken_Raw(up) ==
  LET tok == GetProp(GetProp(up.v, <<"d","a","t","a">>),
                     <<"a","c","c","e","s","s","_","t","o","k","e","n">>)
  IN  IF up.json /\ tok.t = "str" THEN tok.s ELSE <<"r", "a", "w">>

\* jsonData.data?.access_token when it is truthy (a non-empty string),
\* <<>> otherwise, also when JSON.parse or the property access throws.
AccessToken(up) ==
  LET tok == GetProp(GetProp(up.v, <<"d","a","t","a">>),
                     <<"a","c","c","e","s","s","_","t","o","k","e","n">>)
  IN  IF up.json /\ tok.t = "str" THEN tok.s ELSE <<>>

\* fetch resolved with the upstream's status line and headers;
\* clearTimeout(timeoutId) disarms the timer before the body is read.
FetchResponse(up) ==
  /\ pc = "fetching"
  /\ vres.done
  /\ response' = [status |-> up.status, json |-> up.json, v |-> up.v,
                   headers |-> up.headers, read |-> FALSE]
  /\ pc' = "reading"
  /\ wire' = NoWire
  /\ vres' = NoVres
  /\ UNCHANGED <<BFF_SECRET, cfgSecret, cfgId, req, hmacResult, resp,
                 authCookie, elapsed, calls>>
  /\ order' = Issued(order, "first", AccessToken(up))
  /\ UNCHANGED <<canonVars, other, action, nav>>

\* BFF_TIMEOUT ms have passed since fetch was called, after the timer was
\* cleared: nothing is aborted.
TimeoutPeriodOver ==
  /\ pc = "reading"
  /\ ~elapsed
  /\ elapsed' = TRUE
  /\ UNCHANGED <<BFF_SECRET, cfgSecret, cfgId, pc, req, hmacResult, wire,
                 vres, resp, authCookie, response, calls>>
  /\ UNCHANGED sideVars

\* nextResponse.cookies.set('auth_token', token, { httpOnly, sameSite:
\* 'lax', path: '/', expires: now + 15 days }); the secure flag follows
\* NODE_ENV and is left out.
AuthCookie(token) ==
  [name |-> "auth_token", value |-> token, httpOnly |-> TRUE,
   sameSite |-> "lax", path |-> "/", expiresDays |-> 15]

\* response.headers.getSetCookie(): the values of the Set-Cookie headers.
RECURSIVE getSetCookie(_)
getSetCookie(headers) ==
  IF headers = <<>> THEN <<>>
  ELSE (IF Head(headers).k = SetCookieKey THEN <<Head(headers).v>> ELSE <<>>)
         \o getSetCookie(Tail(headers))

\* Headers.set(key, value): the entry named key takes the value (what
\* other entries have the name are removed); without such an entry a new
\* one is added.
HeadersSet(headers, key, value) == SearchParamsSet(headers, key, value)

\* response.headers.forEach((value, key) => { if (key !== 'set-cookie')
\* responseHeaders.set(key, value) }) continued on responseHeaders.
RECURSIVE CopyHeadersInto(_, _)
CopyHeadersInto(responseHeaders, headers) ==
  IF headers = <<>> THEN responseHeaders
  ELSE CopyHeadersInto(IF Head(headers).k # SetCookieKey
                       THEN HeadersSet(responseHeaders, Head(headers).k,
                                       Head(headers).v)
                       ELSE responseHeaders,
                       Tail(headers))

\* setCookieHeaders.forEach((cookie) => responseHeaders.append(
\* 'set-cookie', cookie)).
RECURSIVE AppendCookies(_, _)
AppendCookies(responseHeaders, cookies) ==
  IF cookies = <<>> THEN responseHeaders
  ELSE AppendCookies(Append(responseHeaders,
                            Header(SetCookieKey, Head(cookies))),
                     Tail(cookies))

\* The headers new NextResponse is given.
ResponseHeaders(headers) ==
  AppendCookies(CopyHeadersInto(<<>>, headers), getSetCookie(headers))

\* The name of a Set-Cookie value: the text before its first '='.
RECURSIVE CookieName(_)
CookieName(cookie) ==
  IF cookie = <<>> \/ Head(cookie) = "=" THEN <<>>
  ELSE <<Head(cookie)>> \o CookieName(Tail(cookie))

\* Map.set(name, cookie) on the cookies of a ResponseCookies object, a
\* Map from names to cookies in insertion order.
MapSet(parsed, cookie) ==
  IF \E i \in 1..Len(parsed) : CookieName(parsed[i]) = CookieName(cookie)
  THEN [i \in 1..Len(parsed) |->
          IF CookieName(parsed[i]) = CookieName(cookie) THEN cookie
          ELSE parsed[i]]
  ELSE Append(parsed, cookie)

\* new ResponseCookies(headers): the Set-Cookie values of the headers
\* parsed into the Map.
RECURSIVE ParsedCookies(_, _)
ParsedCookies(parsed, cookies) ==
  IF cookies = <<>> THEN parsed
  ELSE ParsedCookies(MapSet(parsed, Head(cookies)), Tail(cookies))

\* The Set-Cookie value nextResponse.cookies.set('auth_token', token,
\* ...) writes.
AuthCookieHeader(token) ==
  <<"auth_token", "=">> \o token
    \o <<";", " Path=/; Expires=+15d; HttpOnly; SameSite=lax">>

\* nextResponse.cookies.set(cookie): the cookie is put into the Map of
\* the ResponseCookies object, every Set-Cookie header is deleted and one
\* is appended for each entry of the Map.
ResponseCookiesSet(headers, cookie) ==
  AppendCookies(CopyHeadersInto(<<>>, headers),
                MapSet(ParsedCookies(<<>>, getSetCookie(headers)), cookie))

\* The headers of the response proxyRequest returns for the upstream
\* response up.
RelayedHeaders(up) ==
  IF AccessToken(up) # <<>>
  THEN ResponseCookiesSet(ResponseHeaders(up.headers),
                          AuthCookieHeader(AccessToken(up)))
  ELSE ResponseHeaders(up.headers)

\* Statuses for which the Response constructor throws a TypeError when it
\* is given a body, the empty string included.
NullBodyStatus == {204, 205, 304}

\* A relay that writes the auth_token cookie for 2xx responses only.
RelayOutcome_OkOnly(up) ==
  IF up.status \in NullBodyStatus THEN GenericErrorResponse
  ELSE [NoResp EXCEPT !.status = up.status, !.relayed = TRUE, !.up = up,
                      !.headers = RelayedHeaders(up),
                      !.cookie = IF AccessToken(up) # <<>>
                                    /\ up.status \in 200..299
                                 THEN AuthCookie(AccessToken(up))
                                 ELSE NoCookie]

\* proxyRequest from the resolution of response.text() to its return: the
\* upstream response relayed, with the auth_token cookie when the body
\* carries an access token, or the generic 500 when new NextResponse
\* throws.
RelayOutcome(up) ==
  IF up.status \in NullBodyStatus THEN GenericErrorResponse
  ELSE [NoResp EXCEPT !.status = up.status, !.relayed = TRUE, !.up = up,
                      !.headers = RelayedHeaders(up),
                      !.cookie = IF AccessToken(up) # <<>>
                                 THEN AuthCookie(AccessToken(up))
                                 ELSE NoCookie]

\* response.text() resolved: the body has been read in full.
RelayResponse ==
  /\ pc = "reading"
  /\ response' = [response EXCEPT !.read = TRUE]
  /\ resp' = RelayOutcome(ResponseData(response))
  /\ pc' = "done"
  /\ UNCHANGED <<BFF_SECRET, cfgSecret, cfgId, req, hmacResult, wire, vres,
                 authCookie, elapsed, calls>>
  /\ UNCHANGED sideVars

\* response.text() rejected (the connection broke while the body was
\* read): the error is rethrown and answered with the generic 500.
BodyFail ==
  /\ pc = "reading"
  /\ resp' = GenericErrorResponse
  /\ pc' = "done"
  /\ UNCHANGED <<BFF_SECRET, cfgSecret, cfgId, req, hmacResult, wire, vres,
                 authCookie, response, elapsed, calls>>
  /\ UNCHANGED sideVars

\* The 30 s timer fired: controller.abort(), fetch rejects with AbortError.
FetchTimeout ==
  /\ pc = "fetching"
  /\ resp' = BffErrorResponse("Request timeout", "TIMEOUT")
  /\ pc' = "done"
  /\ elapsed' = TRUE
  /\ wire' = NoWire
  /\ vres' = NoVres
  /\ UNCHANGED <<BFF_SECRET, cfgSecret, cfgId, req, hmacResult, authCookie,
                 response, calls>>
  /\ UNCHANGED sideVars

\* A rejected fetch that is called again.
FetchFail_Retry ==
  /\ pc = "fetching"
  /\ calls = 1
  /\ calls' = calls + 1
  /\ vres' = NoVres
  /\ UNCHANGED <<BFF_SECRET, cfgSecret, cfgId, pc, req, hmacResult, wire,
                 resp, authCookie, response, elapsed>>
  /\ UNCHANGED sideVars

\* fetch rejected with any other error (upstream unreachable).
FetchFail ==
  /\ pc = "fetching"
  /\ resp' = GenericErrorResponse
  /\ pc' = "done"
  /\ wire' = NoWire
  /\ vres' = NoVres
  /\ UNCHANGED <<BFF_SECRET, cfgSecret, cfgId, req, hmacResult, authCookie,
                 response, elapsed, calls>>
  /\ UNCHANGED sideVars

\* A Return that keeps the cookie of a response already received when
\* its token was issued after that of the response returned now.
Return_IssueOrder ==
  /\ pc = "done"
  /\ pc' = "idle"
  /\ authCookie' = IF /\ resp.cookie.name = "auth_token"
                      /\ ~(/\ order.received # <<>>
                           /\ \E i \in 1..Len(order.issued) :
                                /\ order.issued[i].by = "first"
                                /\ i < Len(order.issued))
                   THEN resp.cookie.value ELSE authCookie
  /\ req' = NoReq
  /\ hmacResult' = NoHmac
  /\ wire' = NoWire
  /\ vres' = NoVres
  /\ resp' = NoResp
  /\ response' = NoResponse
  /\ elapsed' = FALSE
  /\ calls' = 0
  /\ UNCHANGED <<BFF_SECRET, cfgSecret, cfgId>>
  /\ order' = Received(order, "first", resp.cookie, other.pc = "idle")
  /\ UNCHANGED <<canonVars, other, action, nav>>

\* The caller receives the response; its cookie jar applies the
\* auth_token Set-Cookie, and the gateway is ready for the next request.
Return ==
  /\ pc = "done"
  /\ pc' = "idle"
  /\ authCookie' = IF resp.cookie.name = "auth_token"
                   THEN resp.cookie.value ELSE authCookie
  /\ req' = NoReq
  /\ hmacResult' = NoHmac
  /\ wire' = NoWire
  /\ vres' = NoVres
  /\ resp' = NoResp
  /\ response' = NoResponse
  /\ elapsed' = FALSE
  /\ calls' = 0
  /\ UNCHANGED <<BFF_SECRET, cfgSecret, cfgId>>
  /\ order' = Received(order, "first", resp.cookie, other.pc = "idle")
  /\ UNCHANGED <<canonVars, other, action, nav>>

(***************************************************************************)
(* Upstream                                                                *)
(***************************************************************************)

\* The HMAC middleware runs HmacValidator::validate on the received
\* request; the upstream clock reads the request's timestamp plus skew.
Validate(skew) ==
  /\ wire.present
  /\ ~vres.done
  /\ PhpIntCast(wire.ts) + skew >= 0
  /\ LET now == PhpIntCast(wire.ts) + skew
         r == validate(wire, now, cfgId, cfgSecret)
     IN  vres' = [done |-> TRUE, valid |-> r.valid, error |-> r.error,
                  missing |-> r.missing, now |-> now, times |-> 1,
                  steps |-> ComparisonSteps(wire, now, cfgId, cfgSecret)]
  /\ UNCHANGED <<BFF_SECRET, cfgSecret, cfgId, pc, req, hmacResult, wire,
                 resp, authCookie, response, elapsed, calls>>
  /\ UNCHANGED sideVars

\* A validator that remembers the requests it accepted and rejects them
\* when they arrive again.
validateSeen_Tracked(r, now, expectedId, secret) == Invalid("Replay detected")

\* HmacValidator::validate called for a request it has accepted before:
\* the class has static methods only and no property, cache or store, so
\* the call is the same function of the request, the clock and the
\* configuration.
validateSeen(r, now, expectedId, secret) ==
  validate(r, now, expectedId, secret)

\* The request the upstream accepted arrives a second time (captured and
\* sent again, byte for byte) and is validated at another clock reading.
Replay(skew) ==
  /\ wire.present
  /\ vres.done
  /\ vres.valid
  /\ vres.times = 1
  /\ PhpIntCast(wire.ts) + skew >= 0
  /\ LET now == PhpIntCast(wire.ts) + skew
         r == validateSeen(wire, now, cfgId, cfgSecret)
     IN  vres' = [done |-> TRUE, valid |-> r.valid, error |-> r.error,
                  missing |-> r.missing, now |-> now, times |-> 2,
                  steps |-> ComparisonSteps(wire, now, cfgId, cfgSecret)]
  /\ UNCHANGED <<BFF_SECRET, cfgSecret, cfgId, pc, req, hmacResult, wire,
                 resp, authCookie, response, elapsed, calls>>
  /\ UNCHANGED sideVars

\* Number of signature positions a forger alters, one at a time.
MaxFlip == 2

\* sig with the character at position i replaced by another one.
Flip(sig, i) == [sig EXCEPT ![i] = IF @ = "0" THEN "1" ELSE "0"]

\* X-BFF-Timestamp values of requests sent straight to the upstream.
TsHeaders == {<<"6", "0", "0">>, <<"9", "x">>, <<"a", "b", "c">>, <<>>}

DirectIds == {BFF_ID, <<"other-bff">>}

DirectContents ==
  { <<>>, <<"0">>,
    <<"{", "\"", "b", "\"", ":", "1", ",", "\"", "a", "\"", ":", "2", "}">> }

DirectPath == <<"a", "p", "i", "/", "v", "1", "/", "m", "e">>

\* Signatures a sender can attach to request r: the HMAC of r's payload
\* under a key it holds, such an HMAC with one character altered, or an
\* empty value.
DirectSigs(r) ==
  LET good == { HmacSha256(key, generatePayload(r)) :
                  key \in {<<"k">>, <<"j">>} }
  IN  good \cup { Flip(g, i) : g \in good, i \in 2..(1 + MaxFlip) }
           \cup {<<>>}

\* A request that reaches the upstream without passing through the
\* gateway (replayed, forged or malformed).
DirectRequest(hasId, id, hasTs, ts, hasSig, content) ==
  /\ pc = "idle"
  /\ ~wire.present
  /\ LET r == [NoWire EXCEPT !.present = TRUE, !.origin = "direct",
                             !.hasId = hasId,
                             !.id = IF hasId THEN id ELSE <<>>,
                             !.hasTs = hasTs,
                             !.ts = IF hasTs THEN ts ELSE <<>>,
                             !.host = ExpectedHost,
                             !.method = POST, !.path = DirectPath,
                             !.content = content]
     IN  \E sig \in DirectSigs(r) :
           wire' = [r EXCEPT !.hasSig = hasSig,
                             !.sig = IF hasSig THEN sig ELSE <<>>]
  /\ UNCHANGED <<BFF_SECRET, cfgSecret, cfgId, pc, req, hmacResult, vres,
                 resp, authCookie, response, elapsed, calls>>
  /\ UNCHANGED sideVars

\* The upstream has answered a direct request.
DirectDone ==
  /\ wire.origin = "direct"
  /\ vres.done
  /\ wire' = NoWire
  /\ vres' = NoVres
  /\ UNCHANGED <<BFF_SECRET, cfgSecret, cfgId, pc, req, hmacResult, resp,
                 authCookie, response, elapsed, calls>>
  /\ UNCHANGED sideVars

(***************************************************************************)
(* Specification                                                           *)
(***************************************************************************)

\* No second request is being served.
NoOther ==
  [pc |-> "idle", req |-> NoReq, hmacResult |-> NoHmac, wire |-> NoWire,
   resp |-> NoResp, response |-> NoResponse, elapsed |-> FALSE]

\* No page request has been made.
NoNav ==
  [pc |-> "idle", pathname |-> <<>>, hasCookie |-> FALSE, token |-> <<>>,
   result |-> [kind |-> "", to |-> <<>>, redirect |-> <<>>]]

\* No server action is being executed.
NoAction ==
  [pc |-> "idle", kind |-> "", sent |-> <<>>,
   response |-> [failed |-> FALSE, status |-> 0, json |-> FALSE,
                 v |-> JNull, headers |-> <<>>],
   threw |-> FALSE, error |-> "", statusCode |-> 0, written |-> <<>>,
   deleted |-> FALSE]

\* Nothing has been canonicalized.
NoCanon ==
  [done |-> FALSE, canon |-> JNull, once |-> <<>>, twice |-> <<>>,
   alt |-> <<>>]

Init ==
  /\ order = NoOrder
  /\ BFF_SECRET \in Secrets
  /\ cfgSecret \in UpstreamSecrets
  /\ cfgId \in UpstreamIds
  /\ pc = "idle"
  /\ req = NoReq
  /\ hmacResult = NoHmac
  /\ wire = NoWire
  /\ vres = NoVres
  /\ resp = NoResp
  /\ authCookie \in Tokens
  /\ response = NoResponse
  /\ elapsed = FALSE
  /\ calls = 0
  /\ canonIn = JNull
  /\ canonAlt = JNull
  /\ canonOut = NoCanon
  /\ other = NoOther
  /\ action = NoAction
  /\ nav = NoNav

\* Inbound requests: the parsed body matters only to a request whose body
\* proxyRequest reads.
InboundJson(method, jsonCT) ==
  IF method # GET /\ jsonCT THEN BodyInputs
  ELSE {[ok |-> FALSE, v |-> JNull], [ok |-> TRUE, v |-> ExampleBody]}

Next ==
  \/ \E method \in Methods, segments \in SegLists, jsonCT \in BOOLEAN,
        nowMs \in ClockMs :
       \E json \in InboundJson(method, jsonCT) :
         ProxyRequest(method, segments, jsonCT, json, nowMs, <<>>)
  \/ \E up \in UpResponses : FetchResponse(up)
  \/ TimeoutPeriodOver
  \/ RelayResponse
  \/ BodyFail
  \/ FetchTimeout
  \/ FetchFail
  \/ Return
  \/ \E hasId \in BOOLEAN, id \in DirectIds, hasTs \in BOOLEAN,
        ts \in TsHeaders, hasSig \in BOOLEAN, content \in DirectContents :
       DirectRequest(hasId, id, hasTs, ts, hasSig, content)
  \/ \E skew \in Skews : Validate(skew)
  \/ \E skew \in Skews : Replay(skew)
  \/ DirectDone

Spec == Init /\ [][Next]_vars

(***************************************************************************)
(* Specification of the Path Guard alone: requests whose segment lists are *)
(* those of SegLists and all the lists of at most MaxSegs segments drawn   *)
(* from SegPool.                                                           *)
(***************************************************************************)

MaxSegs == 2

SegPool ==
  { <<>>, <<".">>, <<".", ".">>, <<".", ".", ".">>, <<"a">>,
    <<"a", " ", "b">>, <<"/", "/", "x">>, <<"a", ":", "/", "/", "b">>,
    <<"e", "v", "i", "l", ".", "c", "o", "m">>, <<"A", "-", "1", "_", "z">>,
    <<"l", "o", "g", "i", "n">> }

PoolSegLists ==
  SegLists \cup UNION { [1..n -> SegPool] : n \in 1..MaxSegs }

NextGuard ==
  \/ \E segments \in PoolSegLists, nowMs \in ClockMs :
       ProxyRequest(GET, segments, FALSE, [ok |-> FALSE, v |-> JNull], nowMs,
                    <<>>)
  \/ FetchTimeout
  \/ Return

SpecGuard == Init /\ [][NextGuard]_vars

(***************************************************************************)
(* Specification of sortObjectKeys alone: the JSON values are the objects  *)
(* of at most MaxKeys keys and the arrays of at most MaxKeys elements      *)
(* whose members are a number or an object of at most MaxInnerKeys keys,   *)
(* each with its keys inserted in every order.                             *)
(***************************************************************************)

MaxKeys == 2

MaxInnerKeys == 2

CanonKeys == {<<"b">>, <<"a">>, <<"1">>}

\* The sequences of at most n distinct keys.
KeySeqs(n) ==
  { ks \in UNION { [1..m -> CanonKeys] : m \in 0..n } :
      \A i, j \in 1..Len(ks) : i # j => ks[i] # ks[j] }

\* The objects built by inserting at most n keys, with values from vals.
ObjectsOver(n, vals) ==
  UNION { { JObj([i \in 1..Len(ks) |-> JProp(ks[i], vs[i])]) :
              vs \in [1..Len(ks) -> vals] } : ks \in KeySeqs(n) }

\* The arrays of at most n elements from vals.
ArraysOver(n, vals) ==
  UNION { { JArr(vs) : vs \in [1..m -> vals] } : m \in 0..n }

CanonInner == {JNum(1)} \cup ObjectsOver(MaxInnerKeys, {JNum(1)})

\* Objects with the integer-index keys 9 and 10, at the top and nested.
IndexKeyValues ==
  LET o == JObj(<<JProp(<<"1", "0">>, JNum(1)), JProp(<<"9">>, JNum(2))>>)
  IN  { o,
        JObj(<<JProp(<<"b">>, o), JProp(<<"a">>, JStr(<<"x">>))>>),
        JArr(<<JBool(TRUE), o, JNull>>) }

CanonValues ==
  ObjectsOver(MaxKeys, CanonInner) \cup ArraysOver(MaxKeys, CanonInner)
    \cup IndexKeyValues

Perms(n) ==
  { f \in [1..n -> 1..n] : \A i, j \in 1..n : i # j => f[i] # f[j] }

\* The values that differ from v only in the order in which the keys of
\* its objects, at any depth, were inserted.
RECURSIVE Reinserted(_)
Reinserted(v) ==
  IF v.t \notin {"arr", "obj"} THEN {v}
  ELSE LET n == Len(v.kids)
           alts == { c \in [1..n -> UNION { Reinserted(v.kids[i].v) :
                                              i \in 1..n }] :
                       \A i \in 1..n : c[i] \in Reinserted(v.kids[i].v) }
       IN  IF v.t = "arr" THEN { JArr(c) : c \in alts }
           ELSE { JObj([i \in 1..n |-> JProp(v.kids[f[i]].k, c[f[i]])]) :
                    f \in Perms(n), c \in alts }

InitCanon ==
  /\ BFF_SECRET = <<>>
  /\ cfgSecret = <<>>
  /\ cfgId = BFF_ID
  /\ pc = "idle"
  /\ req = NoReq
  /\ hmacResult = NoHmac
  /\ wire = NoWire
  /\ vres = NoVres
  /\ resp = NoResp
  /\ authCookie = <<>>
  /\ response = NoResponse
  /\ elapsed = FALSE
  /\ calls = 0
  /\ canonIn \in CanonValues
  /\ canonAlt \in Reinserted(canonIn)
  /\ canonOut = NoCanon
  /\ other = NoOther
  /\ action = NoAction
  /\ nav = NoNav
  /\ order = NoOrder

\* JSON.stringify(sortObjectKeys(v)) of the value, of its canonical form
\* and of the reinserted value.
Canonicalize ==
  /\ ~canonOut.done
  /\ canonOut' =
       [done |-> TRUE,
        canon |-> sortObjectKeys(canonIn),
        once |-> JsonStringify(sortObjectKeys(canonIn)),
        twice |-> JsonStringify(sortObjectKeys(sortObjectKeys(canonIn))),
        alt |-> JsonStringify(sortObjectKeys(canonAlt))]
  /\ UNCHANGED <<BFF_SECRET, cfgSecret, cfgId, pc, req, hmacResult, wire,
                 vres, resp, authCookie, response, elapsed, calls, canonIn,
                 canonAlt, other, action, nav, order>>

NextCanon == Canonicalize

SpecCanon == InitCanon /\ [][NextCanon]_vars

(***************************************************************************)
(* Specification of the forwarding alone: requests for two routes with the *)
(* query strings of Queries, and upstream responses that carry headers and *)
(* cookies.                                                                *)
(***************************************************************************)

WireSegLists ==
  { <<<<"a","u","t","h">>, <<"l","o","g","i","n">>>>,
    <<<<"u","s","e","r","s">>, <<"4","2">>, <<"r","o","l","e","s">>>> }

NextWire ==
  \/ \E method \in Methods, segments \in WireSegLists, query \in Queries,
        nowMs \in ClockMs, json \in {[ok |-> TRUE, v |-> ExampleBody]} :
       ProxyRequest(method, segments, TRUE, json, nowMs, query)
  \/ Validate(0)
  \/ \E up \in UpResponses \cup HeaderResponses : FetchResponse(up)
  \/ TimeoutPeriodOver
  \/ RelayResponse
  \/ BodyFail
  \/ FetchTimeout
  \/ FetchFail
  \/ Return

SpecWire == Init /\ [][NextWire]_vars

(***************************************************************************)
(* Two executions of proxyRequest in flight at the same time. Each call of *)
(* the async function has its own parameters and locals (body, hmacResult, *)
(* headers, controller, response, nextResponse); the module-level values   *)
(* BFF_SECRET, BFF_ID, LARAVEL_API_URL and BFF_TIMEOUT are constants. The  *)
(* executions interleave at their await points.                            *)
(***************************************************************************)

\* A second execution whose signature result is kept in a variable that
\* the executions share.
OtherProxyRequest_SharedResult(method, segments, jsonCT, json, nowMs, query) ==
  /\ other.pc = "idle"
  /\ LET o == ProxyOutcome(BFF_SECRET, authCookie, method, segments,
                           jsonCT, json, nowMs, query)
     IN  /\ other' = [pc |-> IF o.fetch THEN "fetching" ELSE "done",
                      req |-> [method |-> method, segments |-> segments,
                               jsonCT |-> jsonCT, json |-> json,
                               nowMs |-> nowMs, query |-> query,
                               token |-> authCookie],
                      hmacResult |-> o.hmac, wire |-> o.wire,
                      resp |-> o.resp, response |-> NoResponse,
                      elapsed |-> FALSE]
         /\ hmacResult' = o.hmac
  /\ order' = Started(order, "other", req = NoReq)
  /\ UNCHANGED <<BFF_SECRET, cfgSecret, cfgId, pc, req, wire, vres, resp,
                 response, elapsed, calls, authCookie, canonVars, action, nav>>

\* proxyRequest called for a second request, up to its fetch call or its
\* early return.
OtherProxyRequest(method, segments, jsonCT, json, nowMs, query) ==
  /\ other.pc = "idle"
  /\ LET o == ProxyOutcome(BFF_SECRET, authCookie, method, segments,
                           jsonCT, json, nowMs, query)
     IN  other' = [pc |-> IF o.fetch THEN "fetching" ELSE "done",
                   req |-> [method |-> method, segments |-> segments,
                            jsonCT |-> jsonCT, json |-> json,
                            nowMs |-> nowMs, query |-> query,
                            token |-> authCookie],
                   hmacResult |-> o.hmac, wire |-> o.wire,
                   resp |-> o.resp, response |-> NoResponse,
                   elapsed |-> FALSE]
  /\ order' = Started(order, "other", req = NoReq)
  /\ UNCHANGED <<gatewayVars, authCookie, canonVars, action, nav>>

\* fetch of the second request resolved.
OtherFetchResponse(up) ==
  /\ other.pc = "fetching"
  /\ other' = [other EXCEPT !.pc = "reading",
                            !.response = [status |-> up.status,
                                          json |-> up.json, v |-> up.v,
                                          headers |-> up.headers,
                                          read |-> FALSE]]
  /\ order' = Issued(order, "other", AccessToken(up))
  /\ UNCHANGED <<gatewayVars, authCookie, canonVars, action, nav>>

\* response.text() of the second request resolved.
OtherRelayResponse ==
  /\ other.pc = "reading"
  /\ other' = [other EXCEPT !.pc = "done",
                            !.response.read = TRUE,
                            !.resp = RelayOutcome(ResponseData(other.response))]
  /\ UNCHANGED <<order, gatewayVars, authCookie, canonVars, action, nav>>

\* fetch or response.text() of the second request rejected.
OtherFail ==
  /\ other.pc \in {"fetching", "reading"}
  /\ other' = [other EXCEPT !.pc = "done", !.resp = GenericErrorResponse]
  /\ UNCHANGED <<order, gatewayVars, authCookie, canonVars, action, nav>>

\* The timer of the second request fired before its fetch resolved.
OtherTimeout ==
  /\ other.pc = "fetching"
  /\ other' = [other EXCEPT !.pc = "done", !.elapsed = TRUE,
                            !.resp = BffErrorResponse("Request timeout",
                                                      "TIMEOUT")]
  /\ UNCHANGED <<order, gatewayVars, authCookie, canonVars, action, nav>>

\* The caller receives the response to the second request and applies its
\* auth_token Set-Cookie.
OtherReturn ==
  /\ other.pc = "done"
  /\ authCookie' = IF other.resp.cookie.name = "auth_token"
                   THEN other.resp.cookie.value ELSE authCookie
  /\ other' = NoOther
  /\ order' = Received(order, "other", other.resp.cookie, req = NoReq)
  /\ UNCHANGED <<gatewayVars, canonVars, action, nav>>

\* Upstream responses to requests in flight at the same time.
ConcResponses ==
  { [status |-> 200, json |-> TRUE, v |-> TokenBody(<<"t", "1">>),
     headers |-> <<>>],
    [status |-> 200, json |-> TRUE, v |-> TokenBody(<<"t", "2">>),
     headers |-> <<>>],
    [status |-> 502, json |-> FALSE, v |-> JNull, headers |-> <<>>] }

InitConc ==
  /\ Init
  /\ cfgSecret = <<"k">>
  /\ cfgId = BFF_ID

NextConc ==
  \/ \E method \in Methods, segments \in WireSegLists, nowMs \in ClockMs :
       ProxyRequest(method, segments, TRUE, [ok |-> TRUE, v |-> ExampleBody],
                    nowMs, <<>>)
  \/ Validate(0)
  \/ \E up \in ConcResponses : FetchResponse(up)
  \/ RelayResponse
  \/ BodyFail
  \/ FetchTimeout
  \/ FetchFail
  \/ Return
  \/ \E method \in Methods, segments \in WireSegLists, nowMs \in ClockMs :
       OtherProxyRequest(method, segments, TRUE,
                         [ok |-> TRUE, v |-> ExampleBody], nowMs, <<>>)
  \/ \E up \in ConcResponses : OtherFetchResponse(up)
  \/ OtherRelayResponse
  \/ OtherFail
  \/ OtherTimeout
  \/ OtherReturn

SpecConc == InitConc /\ [][NextConc]_vars

(***************************************************************************)
(* The auth server actions: bffRequest, loginAction and logoutAction.      *)
(***************************************************************************)

\* str.split(sep) for a separator of one character.
RECURSIVE Split(_, _)
Split(str, sep) ==
  IF \A i \in 1..Len(str) : str[i] # sep THEN <<str>>
  ELSE LET at == CHOOSE i \in 1..Len(str) :
                   /\ str[i] = sep
                   /\ \A j \in 1..(i - 1) : str[j] # sep
       IN  <<SubSeq(str, 1, at - 1)>>
             \o Split(SubSeq(str, at + 1, Len(str)), sep)

\* const [cookiePart] = cookieHeader.split(';'); const [name, value] =
\* cookiePart.split('='): an element that is missing is undefined (<<>>,
\* falsy like the empty string).
CookiePair(cookieHeader) ==
  LET cookiePart == Split(cookieHeader, ";")[1]
      parts == Split(cookiePart, "=")
  IN  [name |-> parts[1],
       value |-> IF Len(parts) >= 2 THEN parts[2] ELSE <<>>]

\* cookieStore.set({ name, value, httpOnly: true, sameSite: 'lax', path:
\* '/', maxAge: 60 * 60 * 24 * 15 }); the secure flag follows NODE_ENV and
\* is left out.
StoredCookie(name, value) ==
  [name |-> name, value |-> value, httpOnly |-> TRUE, sameSite |-> "lax",
   path |-> "/", maxAge |-> 60 * 60 * 24 * 15]

\* setCookieHeaders.forEach: the cookies written to the store.
RECURSIVE StoredCookies(_)
StoredCookies(cookies) ==
  IF cookies = <<>> THEN <<>>
  ELSE LET c == CookiePair(Head(cookies))
       IN  (IF c.name # <<>> /\ c.value # <<>>
            THEN <<StoredCookie(c.name, c.value)>> ELSE <<>>)
             \o StoredCookies(Tail(cookies))

\* A response of the gateway to a server action; failed: fetch rejected.
ActionResponse(failed, status, json, v, headers) ==
  [failed |-> failed, status |-> status, json |-> json, v |-> v,
   headers |-> headers]

ActionResponses ==
  { ActionResponse(TRUE, 0, FALSE, JNull, <<>>),
    ActionResponse(FALSE, 200, TRUE, TokenBody(<<"t", "1">>),
                   <<ContentTypeJson,
                     Header(SetCookieKey, AuthCookieHeader(<<"t", "1">>))>>),
    ActionResponse(FALSE, 200, TRUE, JObj(<<>>), <<ContentTypeJson>>),
    ActionResponse(FALSE, 201, TRUE, JObj(<<>>),
                   <<Header(SetCookieKey, XsrfCookie),
                     Header(SetCookieKey, <<"flag", ";", " Path=/">>)>>),
    ActionResponse(FALSE, 200, TRUE, JObj(<<>>),
                   <<Header(SetCookieKey,
                            <<"auth_token", "=", "a", "=", "=", ";",
                              " Path=/">>)>>),
    ActionResponse(FALSE, 200, FALSE, JNull,
                   <<Header(SetCookieKey, AuthCookieHeader(<<"t", "1">>))>>),
    ActionResponse(FALSE, 401, TRUE, JObj(<<>>),
                   <<Header(SetCookieKey, AuthCookieHeader(<<"t", "1">>))>>),
    ActionResponse(FALSE, 401, TRUE, JObj(<<>>), <<>>),
    ActionResponse(FALSE, 500, FALSE, JNull, <<>>) }

\* bffRequest from the resolution of fetch: what it throws and what it
\* writes to the cookie store.
bffRequest(r) ==
  LET thrown(name, status) ==
        [threw |-> TRUE, error |-> name, statusCode |-> status,
         written |-> <<>>]
  IN  IF r.failed THEN thrown("TypeError", 0)
      ELSE IF ~(r.status >= 200 /\ r.status <= 299)
      THEN thrown("BffRequestError", r.status)
      ELSE IF ~r.json THEN thrown("SyntaxError", 0)
      ELSE [threw |-> FALSE, error |-> "", statusCode |-> r.status,
            written |-> StoredCookies(getSetCookie(r.headers))]

\* A logoutAction that deletes the cookie after the call only, not in a
\* finally block.
DeletesCookie_TryOnly(kind, threw) == kind = "logout" /\ ~threw

\* cookieStore.delete('auth_token') is executed: in logoutAction, in the
\* finally block, whether bffRequest returned or threw.
DeletesCookie(kind, threw) == kind = "logout"

\* The value of the caller's auth_token cookie after the writes of a
\* server action.
RECURSIVE CookieAfter(_, _)
CookieAfter(cookie, written) ==
  IF written = <<>> THEN cookie
  ELSE CookieAfter(IF Head(written).name = <<"auth_token">>
                   THEN Head(written).value ELSE cookie,
                   Tail(written))

\* loginAction or logoutAction is called: bffRequest reads the auth_token
\* cookie, puts it into the Cookie header and calls fetch.
ActionCall(kind) ==
  /\ action.pc = "idle"
  /\ action' = [NoAction EXCEPT !.pc = "calling", !.kind = kind,
                                !.sent = authCookie]
  /\ UNCHANGED <<order, gatewayVars, authCookie, canonVars, other, nav>>

\* fetch has resolved with r or rejected; bffRequest and the action run
\* to their end, and the caller's cookie is what the store says.
ActionFinish(r) ==
  /\ action.pc = "calling"
  /\ LET o == bffRequest(r)
         deleted == DeletesCookie(action.kind, o.threw)
     IN  /\ action' = [action EXCEPT !.pc = "done", !.response = r,
                                     !.threw = o.threw,
                                     !.error = o.error,
                                     !.statusCode = o.statusCode,
                                     !.written = o.written,
                                     !.deleted = deleted]
         /\ authCookie' = IF deleted THEN <<>>
                          ELSE CookieAfter(authCookie, o.written)
  /\ UNCHANGED <<order, gatewayVars, canonVars, other, nav>>

\* The caller has the result of the action.
ActionReturn ==
  /\ action.pc = "done"
  /\ action' = NoAction
  /\ UNCHANGED <<order, gatewayVars, authCookie, canonVars, other, nav>>

NextAction ==
  \/ \E kind \in {"login", "logout"} : ActionCall(kind)
  \/ \E r \in ActionResponses : ActionFinish(r)
  \/ ActionReturn

SpecAction == Init /\ [][NextAction]_vars

(***************************************************************************)
(* The route middleware.                                                   *)
(***************************************************************************)

DashboardPath == <<"/", "d", "a", "s", "h", "b", "o", "a", "r", "d">>

AuthPath == <<"/", "a", "u", "t", "h">>

LoginPath == <<"/", "a", "u", "t", "h", "/", "l", "o", "g", "i", "n">>

RegisterPath == <<"/", "a", "u", "t", "h", "/", "r", "e", "g", "i", "s", "t", "e", "r">>

RootPath == <<"/">>

protectedRoutes == {DashboardPath}

authRoutes == {LoginPath, RegisterPath}

\* A matcher source '/prefix/:path*': the prefix itself and the paths
\* under it.
MatchesUnder(pathname, prefix) ==
  \/ pathname = prefix
  \/ StartsWith(pathname, prefix \o <<"/">>)

\* config.matcher: ['/dashboard/:path*', '/auth/:path*']
matcher(pathname) ==
  \/ MatchesUnder(pathname, DashboardPath)
  \/ MatchesUnder(pathname, AuthPath)

NextResult == [kind |-> "next", to |-> <<>>, redirect |-> <<>>]

\* NextResponse.redirect(url): the path of url and its redirect parameter.
RedirectResult(to, redirect) ==
  [kind |-> "redirect", to |-> to, redirect |-> redirect]

\* A middleware that lets every request to a protected route through.
middleware_Open(pathname, token) ==
  IF (\E route \in authRoutes : StartsWith(pathname, route)) /\ token # <<>>
  THEN RedirectResult(RootPath, <<>>)
  ELSE NextResult

\* middleware(request); token: request.cookies.get('auth_token')?.value
\* (<<>>: undefined or the empty string, both falsy).
middleware(pathname, token) ==
  IF (\E route \in protectedRoutes : StartsWith(pathname, route))
     /\ token = <<>>
  THEN RedirectResult(LoginPath, pathname)
  ELSE IF (\E route \in authRoutes : StartsWith(pathname, route))
          /\ token # <<>>
  THEN RedirectResult(RootPath, <<>>)
  ELSE NextResult

\* What the server does with a page request: the middleware runs for the
\* paths the matcher selects, the other requests go on to their route.
RouteResult(pathname, token) ==
  IF matcher(pathname) THEN middleware(pathname, token) ELSE NextResult

\* Paths of page requests.
Pathnames ==
  { RootPath, DashboardPath, <<"/", "d", "a", "s", "h", "b", "o", "a", "r", "d", "/", "u", "s", "e", "r", "s">>, <<"/", "d", "a", "s", "h", "b", "o", "a", "r", "d", "x">>, <<"/", "d", "a", "s", "h">>,
    AuthPath, LoginPath, RegisterPath, <<"/", "a", "u", "t", "h", "/", "l", "o", "g", "i", "n", "/", "x">>, <<"/", "a", "u", "t", "h", "/", "l", "o", "g", "i", "n", "x">>, <<"/", "a", "u", "t", "h", "/", "c", "a", "l", "l", "b", "a", "c", "k">>, <<"/", "a", "p", "i", "/", "v", "1", "/", "m", "e">> }

\* The auth_token cookie of a page request: none, one with an empty value,
\* or the caller's token.
NavCookies ==
  { [has |-> FALSE, value |-> <<>>], [has |-> TRUE, value |-> <<>>],
    [has |-> TRUE, value |-> <<"t", "0">>] }

\* A page request arrives and is redirected or passed on.
Navigate(pathname, cookie) ==
  /\ nav.pc = "idle"
  /\ nav' = [pc |-> "done", pathname |-> pathname, hasCookie |-> cookie.has,
             token |-> cookie.value,
             result |-> RouteResult(pathname, cookie.value)]
  /\ UNCHANGED <<order, gatewayVars, authCookie, canonVars, other, action>>

\* The response to the page request has been sent.
NavigateDone ==
  /\ nav.pc = "done"
  /\ nav' = NoNav
  /\ UNCHANGED <<order, gatewayVars, authCookie, canonVars, other, action>>

NextRoute ==
  \/ \E pathname \in Pathnames, cookie \in NavCookies :
       Navigate(pathname, cookie)
  \/ NavigateDone

SpecRoute == Init /\ [][NextRoute]_vars

(***************************************************************************)
(* Properties                                                              *)
(***************************************************************************)

\* The body proxyRequest parsed for the request it is serving.
ReqBody == ParsedBody(req.method, req.jsonCT, req.json)

HeadersPresent == wire.hasId /\ wire.hasTs /\ wire.hasSig

ClockDiff == Abs(vres.now - PhpIntCast(wire.ts))

\* The upstream has validated a request that passed the header and id
\* stages.
IdentifiedRequest == vres.done /\ HeadersPresent /\ wire.id = cfgId

\* C1: a request signed by the gateway is accepted by the validator when
\* both sides share the same non-empty secret and id and the validator's
\* clock is within 300 seconds of the signing timestamp.
C1_SignThenValidate ==
  ( /\ vres.done
    /\ wire.origin = "gateway"
    /\ BFF_SECRET # <<>>
    /\ BFF_SECRET = cfgSecret
    /\ cfgId = BFF_ID
    /\ ClockDiff <= 300 )
  => vres.valid

\* C2: the body bytes the gateway transmits are exactly the bytes over
\* which bodyHash was computed.
C2_TransmittedBytesAreHashed ==
  (wire.origin = "gateway" /\ hmacResult.hasBody)
  => /\ wire.content = hmacResult.normalizedBody
     /\ hmacResult.bodyHash = Sha256(wire.content)

\* C3: bodyHash is empty exactly when generateSignature returns no
\* normalizedBody, and otherwise it is the SHA-256 of the canonicalized and
\* compacted body.
C3_EmptyHashIffNoBody ==
  hmacResult.signature # <<>>
  => /\ (hmacResult.bodyHash = <<>>) <=> ~hmacResult.hasBody
     /\ hmacResult.hasBody
          => hmacResult.bodyHash = Sha256(compactJson(ReqBody))

\* The validator reached its signature stage, where it hashes the body.
SignatureStage == IdentifiedRequest /\ ClockDiff <= 300

\* C4: the signing-side canonicalizer (sortObjectKeys + JSON.stringify) and
\* the validating-side one (json_decode + sortArrayKeys + json_encode)
\* produce the same bytes for the same JSON input: the validator's
\* canonical form of a body the gateway sent is the gateway's.
C4_CanonicalizersAgree ==
  (SignatureStage /\ wire.origin = "gateway" /\ hmacResult.hasBody)
  => /\ phpNormalizedBody(JsonStringify(ReqBody))
          = JsonStringify(sortObjectKeys(ReqBody))
     /\ phpNormalizedBody(wire.content) = hmacResult.normalizedBody

\* C5: the validator's stages run in the order header presence, BFF id,
\* timestamp, signature, and the result is the rejection of the first
\* stage that fails.
C5_FirstFailingStage ==
  vres.done
  => IF ~HeadersPresent THEN vres.error = "Missing required headers"
     ELSE IF wire.id # cfgId THEN vres.error = "Invalid BFF ID"
     ELSE IF ClockDiff > 300 THEN vres.error = "Timestamp validation failed"
     ELSE vres.error \in {"", "Invalid signature",
                          "BFF authentication misconfigured"}

\* C5 witness: a request with a wrong id and an expired timestamp is
\* rejected for the id.
C5_Witness ==
  /\ vres.done
  /\ HeadersPresent
  /\ wire.id # cfgId
  /\ ClockDiff > 300
  /\ vres.error = "Invalid BFF ID"

\* C6: a request passes the timestamp stage if and only if
\* |now - timestamp| <= 300, in both directions.
C6_TimestampWindow ==
  IdentifiedRequest
  => ((vres.error = "Timestamp validation failed") <=> (ClockDiff > 300))

\* C6 witness: a timestamp exactly 300 seconds in the past passes the
\* timestamp stage.
C6_Witness ==
  /\ IdentifiedRequest
  /\ vres.now - PhpIntCast(wire.ts) = 300
  /\ vres.error # "Timestamp validation failed"

ExpectedSig == HmacSha256(cfgSecret, generatePayload(wire))

\* C7 (as stated): past the header, id and timestamp stages, any signature
\* other than the expected HMAC is rejected as invalid signature, and
\* validate returns valid only for the expected HMAC.
C7_Original ==
  /\ (IdentifiedRequest /\ ClockDiff <= 300 /\ wire.sig # ExpectedSig)
       => vres.error = "Invalid signature"
  /\ (vres.done /\ vres.valid) => wire.sig = ExpectedSig

\* C7 (amended): the same when the validator's secret is configured; with
\* an empty secret every request that passed the first three stages is
\* rejected as misconfigured, whatever its signature.
C7_Amended ==
  /\ (IdentifiedRequest /\ ClockDiff <= 300 /\ wire.sig # ExpectedSig
        /\ ~PhpEmpty(cfgSecret))
       => vres.error = "Invalid signature"
  /\ (IdentifiedRequest /\ ClockDiff <= 300 /\ PhpEmpty(cfgSecret))
       => vres.error = "BFF authentication misconfigured"
  /\ (vres.done /\ vres.valid)
       => wire.sig = ExpectedSig /\ ~PhpEmpty(cfgSecret)

\* C7 witness: a valid signature with one character altered is rejected
\* as invalid signature.
C7_Witness ==
  /\ IdentifiedRequest
  /\ ClockDiff <= 300
  /\ ~PhpEmpty(cfgSecret)
  /\ \E i \in 2..(1 + MaxFlip) : wire.sig = Flip(ExpectedSig, i)
  /\ vres.error = "Invalid signature"

\* C8: with an empty secret nothing is signed, every request is answered
\* 500 and none reaches the upstream; every request the gateway sends
\* carries the three HMAC headers.
C8_NeverUnsigned ==
  /\ BFF_SECRET = <<>>
       => /\ pc # "fetching"
          /\ wire.origin # "gateway"
          /\ hmacResult = NoHmac
          /\ pc = "done" => (resp.status = 500 /\ ~resp.relayed)
  /\ wire.origin = "gateway"
       => /\ HeadersPresent
          /\ wire.id = BFF_ID
          /\ wire.ts = TimestampOf(req.nowMs)
          /\ wire.sig = hmacResult.signature
          /\ wire.sig # <<>>

\* C8 witness: a request with a valid path and a credential, served with
\* an empty secret, is answered 500.
C8_Witness ==
  /\ BFF_SECRET = <<>>
  /\ pc = "done"
  /\ validatePathSegments(req.segments) = ""
  /\ authCookie # <<>>
  /\ resp = GenericErrorResponse

\* The gateway has called the upstream for the request it is serving.
Fetched == calls > 0

\* C9: an upstream call is always preceded by a successful
\* validatePathSegments on the request's segments.
C9_GuardBeforeFetch == Fetched => validatePathSegments(req.segments) = ""

\* C9 witness: a request with a traversal segment has been answered
\* without any upstream call.
C9_Witness ==
  /\ pc = "done"
  /\ \E i \in 1..Len(req.segments) : req.segments[i] = <<".", ".">>
  /\ ~Fetched
  /\ resp.status = 500

\* The rules of the Path Guard, as the claim lists them.
BadSegment(seg) ==
  \/ seg = <<>>
  \/ seg = <<".">>
  \/ seg = <<".", ".">>
  \/ Includes(seg, <<":", "/", "/">>)
  \/ StartsWith(seg, <<"/", "/">>)
  \/ \E i \in 1..Len(seg) :
       ~(seg[i] \in Lower \cup Upper \/ IsDigit(seg[i])
           \/ seg[i] \in {"_", "-"})

PathRejected ==
  /\ pc = "done"
  /\ resp.status = 500
  /\ resp.error \in {"Invalid path: empty segment",
                     "Invalid path: traversal not allowed",
                     "Invalid path: absolute URLs not allowed",
                     "Invalid path: forbidden characters"}

\* C10: validatePathSegments rejects a segment list when any segment is
\* empty, '.' or '..', contains '://', starts with '//' or does not match
\* [A-Za-z0-9_-]+, and accepts otherwise.
C10_PathGuardRules ==
  pc # "idle"
  => (PathRejected <=>
        \E i \in 1..Len(req.segments) : BadSegment(req.segments[i]))

\* C10 witness: ['http:', '', 'evil.com'] is rejected.
C10_Witness ==
  /\ PathRejected
  /\ req.segments = <<<<"h","t","t","p",":">>, <<>>,
                      <<"e","v","i","l",".","c","o","m">>>>

\* The route test of the claim: the target path is one of the listed routes.
OnAllowList(path) == path \in publicRoutes

\* The target path starts with one of the listed routes.
UnderAllowList(path) == \E route \in publicRoutes : StartsWith(path, route)

TargetPath == LaravelPath(req.segments)

\* C11: every request the gateway sends upstream targets the configured
\* upstream host, and a request whose constructed URL has any other host
\* is answered without an upstream call.
C11_UpstreamHostOnly ==
  /\ wire.origin = "gateway" => wire.host = ExpectedHost
  /\ Fetched => UrlHost(TargetPath) = ExpectedHost

\* C11 witness: a request for users/42/roles is on its way to the
\* configured host.
C11_Witness ==
  /\ wire.origin = "gateway"
  /\ wire.host = ExpectedHost
  /\ Len(req.segments) = 3

\* A request without credential that passed the Path Guard and was signed.
Uncredentialed ==
  /\ pc # "idle"
  /\ authCookie = <<>>
  /\ validatePathSegments(req.segments) = ""
  /\ BFF_SECRET # <<>>

\* C12 (as stated): a request without auth_token reaches the upstream only
\* if its target path is one of the public routes; for any other path it
\* is answered with the local 401 and no upstream call is made.
C12_Original ==
  Uncredentialed
  => /\ Fetched => OnAllowList(TargetPath)
     /\ (pc = "done" /\ ~OnAllowList(TargetPath))
          => (resp = UnauthorizedResponse /\ ~Fetched)

\* C12 (amended): a request without auth_token reaches the upstream only
\* if its target path starts with one of the public routes; for any other
\* path it is answered with the local 401 and no upstream call is made.
C12_Amended ==
  Uncredentialed
  => /\ Fetched => UnderAllowList(TargetPath)
     /\ ~UnderAllowList(TargetPath)
          => /\ ~Fetched
             /\ pc = "done"
             /\ resp = UnauthorizedResponse

\* C12 witness: a request without credential for users/42/roles has been
\* answered 401 without any upstream call.
C12_Witness ==
  /\ pc = "done"
  /\ authCookie = <<>>
  /\ Len(req.segments) = 3
  /\ resp = UnauthorizedResponse
  /\ ~Fetched

\* C13: two requests rejected by the Path Guard for different reasons
\* receive indistinguishable responses: every rejected request receives
\* the response that a request with an empty segment receives.
C13_GenericPathRejection ==
  (pc = "done" /\ validatePathSegments(req.segments) # "")
  => resp = BffErrorResponse("Invalid path: empty segment",
                             "INVALID_SIGNATURE")

\* C14: a forward that has not completed when the 30-second timeout
\* period is over ends in the Timeout failure.
C14_TimeoutEndsForward ==
  (pc = "done" /\ elapsed)
  => resp = BffErrorResponse("Request timeout", "TIMEOUT")

\* C15: the auth_token cookie is written only on a relayed upstream
\* response whose body parsed as JSON and was read in full; a request that
\* ends in a path rejection, a signing error, the local 401, a timeout or
\* a network failure emits none.
C15_CookieOnlyAfterParsedResponse ==
  /\ resp.cookie # NoCookie
       => /\ pc = "done"
          /\ resp.relayed
          /\ response.read
          /\ response.json
          /\ resp.up = ResponseData(response)
  /\ (pc = "done" /\ ~resp.relayed)
       => (resp.cookie = NoCookie /\ resp.status \in {401, 500})

\* C15 witness: a relayed response sets the cookie after its JSON body has
\* been read.
C15_Witness ==
  /\ pc = "done"
  /\ resp.cookie.name = "auth_token"
  /\ response.read
  /\ response.json

\* The non-empty string at data.access_token of a response body, <<>> when
\* the body does not parse or has none.
BodyToken(r) ==
  IF r.json /\ r.v.t = "obj"
  THEN LET data == GetProp(r.v, <<"d","a","t","a">>)
       IN  IF data.t = "obj"
           THEN LET tok == GetProp(data, <<"a","c","c","e","s","s","_",
                                           "t","o","k","e","n">>)
                IN  IF tok.t = "str" THEN tok.s ELSE <<>>
           ELSE <<>>
  ELSE <<>>

\* C16: when the upstream body parses as JSON and carries a token at
\* data.access_token, the relayed response sets auth_token to that token
\* with HttpOnly, SameSite=Lax, Path=/ and a 15-day expiry; otherwise no
\* cookie is set; in both cases the upstream response is relayed
\* unchanged.
C16_Rotation ==
  (pc = "done" /\ response.read)
  => /\ resp.relayed
     /\ resp.status = response.status
     /\ resp.up = ResponseData(response)
     /\ BodyToken(response) # <<>>
          => resp.cookie = [name |-> "auth_token",
                            value |-> BodyToken(response),
                            httpOnly |-> TRUE, sameSite |-> "lax",
                            path |-> "/", expiresDays |-> 15]
     /\ BodyToken(response) = <<>> => resp.cookie = NoCookie

C18_TransparentRelay ==
  /\ (pc = "done" /\ response.read)
       => /\ resp.relayed
          /\ resp.status = response.status
          /\ resp.up = ResponseData(response)
  /\ (pc = "done" /\ ~resp.relayed /\ resp.status = 500) => ~response.read

\* C19: the gateway calls the upstream at most once for a request, and a
\* failed or timed-out forward is answered once, with no further call.
C19_NoRetry ==
  /\ calls <= 1
  /\ pc \in {"fetching", "reading"} => calls = 1
  /\ (pc = "done" /\ calls = 1 /\ ~resp.relayed)
       => (resp.status = 500 /\ wire.origin # "gateway")

\* C19 witness: a forward that timed out has been answered after a single
\* upstream call.
C19_Witness ==
  /\ pc = "done"
  /\ resp.code = "TIMEOUT"
  /\ calls = 1

\* C20: sortObjectKeys is idempotent and independent of key insertion
\* order: canonicalizing a canonical form serializes to the same bytes,
\* and so does canonicalizing a value that differs only in the order its
\* keys were inserted, at any depth.
C20_CanonIdempotentOrderFree ==
  canonOut.done
  => /\ canonOut.twice = canonOut.once
     /\ canonOut.alt = canonOut.once

\* C20 witness: two values whose nested objects were built in different
\* key orders, neither in sorted order, have been canonicalized.
C20_Witness ==
  /\ canonOut.done
  /\ JsonStringify(canonIn) # JsonStringify(canonAlt)
  /\ JsonStringify(canonIn) # canonOut.once
  /\ \E i \in 1..Len(canonIn.kids) :
       /\ canonIn.kids[i].v.t = "obj"
       /\ canonIn.kids[i].v # canonAlt.kids[i].v

\* v with the keys of every object, at every depth, in ascending
\* code-point order, the elements of arrays in their order and scalars as
\* they are.
RECURSIVE CodePointCanonical(_)
CodePointCanonical(v) ==
  IF v.t \notin {"arr", "obj"} THEN v
  ELSE LET kids == IF v.t = "obj" THEN SortByKey(v.kids) ELSE v.kids
       IN  [v EXCEPT !.kids =
              [i \in 1..Len(kids) |->
                 [k |-> kids[i].k, v |-> CodePointCanonical(kids[i].v)]]]

\* C21: in the canonical body the keys of every object, at every nesting
\* level, are in ascending code-point order, array elements keep their
\* order and scalars are unchanged.
C21_KeysAscending ==
  canonOut.done
  => /\ canonOut.canon = CodePointCanonical(canonIn)
     /\ canonOut.once = JsonStringify(CodePointCanonical(canonIn))

WithoutQuery ==
  ProxyOutcome(BFF_SECRET, req.token, req.method, req.segments, req.jsonCT,
               req.json, req.nowMs, <<>>)

\* C23: the query parameters are forwarded and are no part of the
\* signature: a request has the headers, the signature and the body of the
\* request that differs from it only in having no query string.
C23_QueryNotSigned ==
  wire.origin = "gateway"
  => /\ WithoutQuery.fetch
     /\ hmacResult = WithoutQuery.hmac
     /\ wire.sig = WithoutQuery.wire.sig
     /\ wire.ts = WithoutQuery.wire.ts
     /\ wire.path = WithoutQuery.wire.path
     /\ wire.content = WithoutQuery.wire.content
     /\ \A i \in 1..Len(req.query) :
          \E j \in 1..Len(wire.query) : wire.query[j].k = req.query[i].k
     /\ \A j \in 1..Len(wire.query) :
          \E i \in 1..Len(req.query) : req.query[i] = wire.query[j]

\* C23 witness: a request with the query a=1&b=2 is on its way with both
\* parameters.
C23_Witness ==
  /\ wire.origin = "gateway"
  /\ Len(req.query) = 2
  /\ wire.query = req.query
  /\ wire.sig = WithoutQuery.wire.sig

\* C24: the validator keeps no record of the requests it accepted: a
\* request it accepted, validated a second time while the upstream clock is
\* within 300 seconds of its timestamp, is accepted again.
C24_ReplayAccepted ==
  (/\ vres.times = 2
   /\ Abs(vres.now - PhpIntCast(wire.ts)) <= TIMESTAMP_TOLERANCE)
  => /\ vres.valid
     /\ vres.error = ""

\* C24 witness: a request of the gateway, accepted once, is accepted again
\* 300 seconds after it was signed.
C24_Witness ==
  /\ wire.origin = "gateway"
  /\ vres.times = 2
  /\ vres.now = PhpIntCast(wire.ts) + TIMESTAMP_TOLERANCE
  /\ vres.valid

\* The request being served has no body that proxyRequest reads: its
\* method is GET or HEAD, its content-type is not JSON, or its body is
\* absent or is not JSON text.
NoReadableBody ==
  \/ req.method \in {GET, HEAD}
  \/ ~req.jsonCT
  \/ ~req.json.ok

\* What proxyRequest does with the request being served when it has no
\* body and no content-type.
WithoutBody ==
  ProxyOutcome(BFF_SECRET, req.token, req.method, req.segments, FALSE,
               [ok |-> FALSE, v |-> JNull], req.nowMs, req.query)

\* C25: the body is read only for methods other than GET and HEAD and
\* only under a JSON content-type; a request with no readable body is no
\* error: it is served as the request without body is, and when it is
\* forwarded it is signed over the empty bodyHash and sent without body.
C25_NoBodyIsNoError ==
  (req # NoReq /\ NoReadableBody)
  => /\ Fetched = WithoutBody.fetch
     /\ hmacResult = WithoutBody.hmac
     /\ (pc = "fetching"
         => /\ wire.origin = "gateway"
            /\ hmacResult.bodyHash = <<>>
            /\ ~hmacResult.hasBody
            /\ wire.content = <<>>
            /\ wire.sig = HmacSha256(BFF_SECRET,
                                     Payload(wire.ts, req.method, wire.path,
                                             <<>>)))

\* C25 witness: a POST with a JSON content-type and a body that json()
\* rejects is on its way to the upstream without body.
C25_Witness ==
  /\ pc = "fetching"
  /\ req.method = POST
  /\ req.jsonCT
  /\ ~req.json.ok
  /\ wire.content = <<>>
  /\ hmacResult.bodyHash = <<>>

\* The entries of headers other than the Set-Cookie ones.
OtherHeaders(headers) ==
  SelectSeq(headers, LAMBDA h : h.k # SetCookieKey)

\* C26: on a relayed response every upstream header other than
\* Set-Cookie is present with its value, and each upstream Set-Cookie
\* value is a Set-Cookie header of its own: none is merged with another
\* one or dropped, so that the response carries as many as the upstream
\* sent, and the gateway's own auth_token cookie besides.
C26_HeaderRelay ==
  resp.relayed
  => LET upCookies == getSetCookie(resp.up.headers)
         outCookies == getSetCookie(resp.headers)
         own == IF resp.cookie.name = "auth_token" THEN 1 ELSE 0
     IN  /\ OtherHeaders(resp.headers) = OtherHeaders(resp.up.headers)
         /\ \A i \in 1..Len(upCookies) :
              \E j \in 1..Len(outCookies) : outCookies[j] = upCookies[i]
         /\ Len(outCookies) = Len(upCookies) + own

\* The first execution of proxyRequest, as a record like other.
First ==
  [pc |-> pc, req |-> req, hmacResult |-> hmacResult, wire |-> wire,
   resp |-> resp, response |-> response, elapsed |-> elapsed]

\* The execution x of proxyRequest is where, and has produced what, an
\* execution that runs alone produces from x's own request, cookie and
\* clock reading and from what x's own fetch did.
AsAlone(x) ==
  LET o == ProxyOutcome(BFF_SECRET, x.req.token, x.req.method,
                        x.req.segments, x.req.jsonCT, x.req.json,
                        x.req.nowMs, x.req.query)
  IN  /\ x.hmacResult = o.hmac
      /\ (x.pc = "fetching" => o.fetch /\ x.wire = o.wire)
      /\ (x.pc = "reading" => o.fetch)
      /\ (x.pc = "done"
          => x.resp = IF ~o.fetch THEN o.resp
                      ELSE IF x.response.read
                      THEN RelayOutcome(ResponseData(x.response))
                      ELSE IF x.response = NoResponse /\ x.elapsed
                      THEN BffErrorResponse("Request timeout", "TIMEOUT")
                      ELSE GenericErrorResponse)

\* C27: concurrent requests are independent: whatever the interleaving,
\* each of two executions of proxyRequest has the signature headers, the
\* upstream request, and the status, body and cookie of the response that
\* it has when it runs alone with the same inputs and clock reading.
C27_Independent ==
  /\ (pc # "idle" => AsAlone(First))
  /\ (other.pc # "idle" => AsAlone(other))

\* C27 witness: two different requests signed at different clock readings
\* have been relayed with different upstream responses, none returned yet.
C27_Witness ==
  /\ pc = "done"
  /\ other.pc = "done"
  /\ resp.relayed
  /\ other.resp.relayed
  /\ resp.up # other.resp.up
  /\ req.segments # other.req.segments
  /\ req.nowMs # other.req.nowMs

\* C28: a rejection does not show which of the four checks failed: what
\* validate returns for a rejected request is what it returns for any
\* other rejected request, here a request whose signature is wrong.
C28_GenericRejection ==
  (vres.done /\ ~vres.valid)
  => /\ vres.error = "Invalid signature"
     /\ vres.missing = <<>>

\* C29: when logoutAction has finished, the auth_token cookie has been
\* deleted, whether the logout call returned, was answered with a non-ok
\* status, or failed.
C29_LogoutDestroysCredential ==
  (action.pc = "done" /\ action.kind = "logout")
  => /\ action.deleted
     /\ authCookie = <<>>

\* C29 witness: a caller holding a token has logged out, the gateway
\* answered 401, and the cookie is gone.
C29_Witness ==
  /\ action.pc = "done"
  /\ action.kind = "logout"
  /\ action.sent # <<>>
  /\ action.threw
  /\ action.statusCode = 401
  /\ authCookie = <<>>

\* The signature the validator expects for the request on the wire.
ExpectedSignature == HmacSha256(cfgSecret, generatePayload(wire))

\* C30: the signatures are compared in constant time: when the validator
\* compares a received signature with the expected one of the same
\* length, it looks at every character pair, however many leading
\* characters match.
C30_ConstantTimeComparison ==
  (/\ vres.done
   /\ ComparesSignature(wire, vres.now, cfgId, cfgSecret)
   /\ Len(wire.sig) = Len(ExpectedSignature))
  => /\ vres.steps = Len(ExpectedSignature)
     /\ vres.valid = (wire.sig = ExpectedSignature)

\* C30 witness: a signature that agrees with the expected one in its first
\* two characters and differs in the third is rejected after the whole
\* comparison.
C30_Witness ==
  /\ vres.done
  /\ vres.error = "Invalid signature"
  /\ Len(wire.sig) = Len(ExpectedSignature)
  /\ MatchingPrefix(ExpectedSignature, wire.sig) = 2
  /\ vres.steps = Len(ExpectedSignature)

\* C31 as stated: a request to a path starting with /dashboard without
\* auth_token cookie is redirected to /auth/login with redirect=<pathname>,
\* a request to /auth/login or /auth/register with an auth_token cookie is
\* redirected to /, and every other request is passed through.
C31_Original ==
  nav.pc = "done"
  => IF StartsWith(nav.pathname, DashboardPath) /\ ~nav.hasCookie
     THEN nav.result = RedirectResult(LoginPath, nav.pathname)
     ELSE IF nav.pathname \in {LoginPath, RegisterPath} /\ nav.hasCookie
     THEN nav.result = RedirectResult(RootPath, <<>>)
     ELSE nav.result = NextResult

\* The request carries an auth_token cookie whose value is not empty.
HasToken == nav.hasCookie /\ nav.token # <<>>

\* C31 amended: a request to /dashboard or a path under it without a
\* non-empty auth_token cookie is redirected to /auth/login with
\* redirect=<pathname>; a request to a path under /auth that starts with
\* /auth/login or /auth/register, with a non-empty auth_token cookie, is
\* redirected to /; every other request is passed through.
C31_Amended ==
  nav.pc = "done"
  => IF MatchesUnder(nav.pathname, DashboardPath) /\ ~HasToken
     THEN nav.result = RedirectResult(LoginPath, nav.pathname)
     ELSE IF /\ \/ StartsWith(nav.pathname, LoginPath)
                \/ StartsWith(nav.pathname, RegisterPath)
             /\ HasToken
     THEN nav.result = RedirectResult(RootPath, <<>>)
     ELSE nav.result = NextResult

\* C31 witness: a request to /dashboard/users without cookie has been
\* redirected to /auth/login?redirect=/dashboard/users.
C31_Witness ==
  /\ nav.pc = "done"
  /\ ~nav.hasCookie
  /\ Len(nav.pathname) > Len(DashboardPath)
  /\ MatchesUnder(nav.pathname, DashboardPath)
  /\ nav.result = RedirectResult(LoginPath, nav.pathname)

\* The value of a Set-Cookie header: the text between its first '=' and
\* its first ';'.
SetCookieValue(cookie) ==
  LET cookiePart == Split(cookie, ";")[1]
      name == CookieName(cookiePart)
  IN  IF Len(name) = Len(cookiePart) THEN <<>>
      ELSE SubSeq(cookiePart, Len(name) + 2, Len(cookiePart))

\* The cookies of the response as the store should hold them: each with
\* its name and value, HttpOnly, SameSite=Lax, Path=/, Max-Age 1296000.
ReturnedCookies(headers) ==
  LET cookies == getSetCookie(headers)
  IN  [i \in 1..Len(cookies) |->
         [name |-> CookieName(cookies[i]),
          value |-> SetCookieValue(cookies[i]),
          httpOnly |-> TRUE, sameSite |-> "lax", path |-> "/",
          maxAge |-> 1296000]]

\* The response is ok, its body is JSON, and each of its cookies has a
\* name and a value.
PlainOkResponse(r) ==
  /\ ~r.failed
  /\ r.status \in 200..299
  /\ r.json
  /\ \A i \in 1..Len(ReturnedCookies(r.headers)) :
       /\ ReturnedCookies(r.headers)[i].name # <<>>
       /\ ReturnedCookies(r.headers)[i].value # <<>>

\* C32: bffRequest changes the cookie store only after an ok response: on
\* a non-ok response it throws BffRequestError with the response status
\* and writes no cookie; on an ok response (here: one with a JSON body and
\* cookies that all have a name and a value) it writes each returned
\* cookie with its name and value, HttpOnly, SameSite=Lax, Path=/ and
\* Max-Age 1296000.
C32_CookieStoreFrame ==
  (action.pc = "done" /\ ~action.response.failed)
  => /\ (action.response.status \notin 200..299
         => /\ action.threw
            /\ action.error = "BffRequestError"
            /\ action.statusCode = action.response.status
            /\ action.written = <<>>)
     /\ (PlainOkResponse(action.response)
         => /\ ~action.threw
            /\ action.written = ReturnedCookies(action.response.headers))

\* The character-class rule: the segment is one or more of the characters
\* A-Z, a-z, 0-9, '_' and '-'.
InClass(seg) ==
  /\ Len(seg) >= 1
  /\ \A i \in 1..Len(seg) :
       seg[i] \in Lower \cup Upper \cup {"_", "-"} \/ IsDigit(seg[i])

\* The reason the claim gives for a segment outside the class: that of the
\* first rule it violates.
FirstRule(seg) ==
  IF seg = <<>> THEN "Invalid path: empty segment"
  ELSE IF seg \in {<<".">>, <<".", ".">>}
  THEN "Invalid path: traversal not allowed"
  ELSE IF Includes(seg, <<":", "/", "/">>) \/ StartsWith(seg, <<"/", "/">>)
  THEN "Invalid path: absolute URLs not allowed"
  ELSE "Invalid path: forbidden characters"

\* C33: the Path Guard accepts a segment list exactly when every segment
\* matches [A-Za-z0-9_-]+ (the empty list is accepted); the other checks
\* reject no segment of the class and only give the reason, which is that
\* of the first segment outside the class and of the first rule that
\* segment violates.
C33_ClassRuleDecides ==
  /\ validatePathSegments(<<>>) = ""
  /\ pc = "done"
     => LET outside == { i \in 1..Len(req.segments) :
                           ~InClass(req.segments[i]) }
        IN  /\ PathRejected <=> outside # {}
            /\ outside # {}
               => LET first == CHOOSE i \in outside :
                                 \A j \in outside : i <= j
                  IN  resp.error = FirstRule(req.segments[first])

\* C33 witness: in ['a', 'a://b'] the second segment is outside the class
\* and violates two rules; the reason is that of the '://' rule.
C33_Witness ==
  /\ PathRejected
  /\ Len(req.segments) = 2
  /\ InClass(req.segments[1])
  /\ Includes(req.segments[2], <<":", "/", "/">>)
  /\ resp.error = "Invalid path: absolute URLs not allowed"

(***************************************************************************)
(* C34: order of signing and credential check                              *)
(***************************************************************************)

\* The inbound request in hand has no auth_token and a non-public path.
NoCredentialRequest ==
  /\ req # NoReq
  /\ req.token = <<>>
  /\ ~isPublicRoute(LaravelPath(req.segments))

\* Path validation and the host check pass for the request in hand.
GuardsPassed ==
  /\ validatePathSegments(req.segments) = ""
  /\ UrlHost(LaravelPath(req.segments)) = ExpectedHost

\* C34: a request with no auth_token to a non-public path is answered at
\* once and never reaches the upstream; the answer is the 401 exactly when
\* path validation, the host check and generateSignature succeeded (the
\* signature has been computed by then), and with BFF_SECRET unset the
\* answer to a request that passes the two guards is the generic 500.
C34_SignBeforeCredentialCheck ==
  NoCredentialRequest
  => /\ pc = "done"
     /\ ~Fetched
     /\ ~wire.present
     /\ resp.status \in {401, 500}
     /\ resp = UnauthorizedResponse <=> (GuardsPassed /\ BFF_SECRET # <<>>)
     /\ resp = UnauthorizedResponse
        => /\ ~hmacResult.threw
           /\ hmacResult.id = BFF_ID
           /\ hmacResult.signature # <<>>
     /\ (GuardsPassed /\ BFF_SECRET = <<>>) => resp = GenericErrorResponse

\* C34 witness: GET users/42/roles without cookie, secret set: signed, then
\* answered 401 with no upstream call.
C34_Witness ==
  /\ NoCredentialRequest
  /\ GuardsPassed
  /\ BFF_SECRET # <<>>
  /\ hmacResult.signature # <<>>
  /\ resp = UnauthorizedResponse
  /\ ~Fetched

\* The same request with BFF_SECRET unset is answered 500.
C34_WitnessUnset ==
  /\ NoCredentialRequest
  /\ GuardsPassed
  /\ BFF_SECRET = <<>>
  /\ resp = GenericErrorResponse
  /\ ~Fetched

(***************************************************************************)
(* C35: rotation and the upstream status                                   *)
(***************************************************************************)

\* C35: a response whose body was read and parses as JSON with a non-empty
\* data.access_token is relayed with the auth_token cookie set to that
\* token whatever the upstream status is; a body with an empty-string or
\* missing token, or one that is no JSON, sets no cookie.
C35_RotationAnyStatus ==
  (pc = "done" /\ response.read)
  => LET tok == BodyToken(response)
     IN  /\ tok # <<>>
            => /\ resp.status = response.status
               /\ resp.cookie.name = "auth_token"
               /\ resp.cookie.value = tok
               /\ \E i \in 1..Len(resp.headers) :
                    resp.headers[i] = Header(SetCookieKey,
                                             AuthCookieHeader(tok))
         /\ tok = <<>>
            => /\ resp.cookie.name # "auth_token"
               /\ \A i \in 1..Len(resp.headers) :
                    resp.headers[i].k = SetCookieKey
                    => CookieName(resp.headers[i].v) # <<"auth_token">>

\* C35 witness: the upstream answers 401 with a body that carries the
\* token t1, and the relayed 401 sets auth_token=t1.
C35_Witness ==
  /\ pc = "done"
  /\ response.read
  /\ response.status = 401
  /\ BodyToken(response) = <<"t", "1">>
  /\ resp.status = 401
  /\ resp.cookie.name = "auth_token"
  /\ resp.cookie.value = <<"t", "1">>

(***************************************************************************)
(* C36: the validator without a configured secret                          *)
(***************************************************************************)

\* C36: with an empty configured secret no validation ends valid, and the
\* outcome 'BFF authentication misconfigured' is that of exactly the
\* requests that carry the three headers, the expected id and a timestamp
\* inside the window; with a secret configured it is never produced.
C36_FailsClosedWithoutSecret ==
  vres.done
  => /\ cfgSecret = <<>>
        => /\ ~vres.valid
           /\ vres.error = "BFF authentication misconfigured"
              <=> (HeadersPresent /\ wire.id = cfgId /\ ClockDiff <= 300)
     /\ vres.error = "BFF authentication misconfigured" => cfgSecret = <<>>

\* C36 witness: a request signed by the gateway, inside the window, is
\* rejected as misconfigured by an upstream without secret.
C36_Witness ==
  /\ vres.done
  /\ cfgSecret = <<>>
  /\ wire.origin = "gateway"
  /\ wire.id = cfgId
  /\ ClockDiff <= 300
  /\ ~vres.valid
  /\ vres.error = "BFF authentication misconfigured"

(***************************************************************************)
(* C37: timestamp headers that are no number                               *)
(***************************************************************************)

\* A header value that is not a string of decimal digits.
NonNumeric(s) == s = <<>> \/ \E i \in 1..Len(s) : ~IsDigit(s[i])

\* C37: a request that gets to the timestamp stage with an empty or
\* non-numeric X-BFF-Timestamp, validated at a clock of more than 300, has
\* its timestamp read as 0 and is rejected by the timestamp stage.
C37_NonNumericTimestampRejected ==
  (IdentifiedRequest /\ NonNumeric(wire.ts) /\ vres.now > 300)
  => /\ PhpIntCast(wire.ts) = 0
     /\ vres.error = "Timestamp validation failed"

(***************************************************************************)
(* C38: two responses with tokens, relayed in either order                 *)
(***************************************************************************)

\* Both executions were in flight together, each was issued a token, and
\* the caller has been handed both responses.
BothRelayed == Len(order.issued) = 2 /\ Len(order.received) = 2

\* C38: each execution relays the token of its own upstream response as
\* its own auth_token cookie, and once the caller has been handed both
\* responses it holds the token of the one handed over last, whichever
\* token was issued first.
C38_LastRelayedWins ==
  /\ (pc = "done" /\ resp.relayed /\ AccessToken(resp.up) # <<>>)
       => resp.cookie = AuthCookie(AccessToken(resp.up))
  /\ (other.pc = "done" /\ other.resp.relayed
        /\ AccessToken(other.resp.up) # <<>>)
       => other.resp.cookie = AuthCookie(AccessToken(other.resp.up))
  /\ BothRelayed => authCookie = order.received[2].token

\* C38 witness: the first execution was issued t1, then the second was
\* issued t2; the caller was handed the second response first, and ends
\* up holding t1, the token issued first.
C38_Witness ==
  /\ order.issued = << [by |-> "first", token |-> <<"t", "1">>],
                       [by |-> "other", token |-> <<"t", "2">>] >>
  /\ order.received = << [by |-> "other", token |-> <<"t", "2">>],
                         [by |-> "first", token |-> <<"t", "1">>] >>
  /\ pc = "idle"
  /\ other.pc = "idle"
  /\ authCookie = <<"t", "1">>

\* The same two responses handed over in the order of issue: the caller
\* ends up holding t2.
C38_WitnessInOrder ==
  /\ order.issued = << [by |-> "first", token |-> <<"t", "1">>],
                       [by |-> "other", token |-> <<"t", "2">>] >>
  /\ order.received = order.issued
  /\ authCookie = <<"t", "2">>

(***************************************************************************)
(* C39: one value per query key                                            *)
(***************************************************************************)

\* The value of the last pair named key in query.
LastValue(query, key) ==
  query[CHOOSE i \in 1..Len(query) :
          /\ query[i].k = key
          /\ \A j \in (i + 1)..Len(query) : query[j].k # key].v

\* Some key occurs twice in query.
RepeatedKey(query) ==
  \E i, j \in 1..Len(query) : i < j /\ query[i].k = query[j].k

\* C39: the query of the request sent upstream has the keys of the inbound
\* query and no other, each exactly once and with the last inbound value
\* of the key; an inbound query with a repeated key is sent changed.
C39_OneValuePerKey ==
  wire.origin = "gateway"
  => /\ \A i \in 1..Len(req.query) :
          \E j \in 1..Len(wire.query) :
            /\ wire.query[j].k = req.query[i].k
            /\ wire.query[j].v = LastValue(req.query, req.query[i].k)
            /\ \A m \in 1..Len(wire.query) :
                 wire.query[m].k = req.query[i].k => m = j
     /\ \A j \in 1..Len(wire.query) :
          \E i \in 1..Len(req.query) : req.query[i].k = wire.query[j].k
     /\ RepeatedKey(req.query) => wire.query # req.query

\* C39 witness: the inbound query a=1&b=2&a=3 is sent as a=3&b=2.
C39_Witness ==
  /\ wire.origin = "gateway"
  /\ req.query = <<QParam(<<"a">>, <<"1">>), QParam(<<"b">>, <<"2">>),
                   QParam(<<"a">>, <<"3">>)>>
  /\ wire.query = <<QParam(<<"a">>, <<"3">>), QParam(<<"b">>, <<"2">>)>>

====
